---- MODULE Spec2Model ----
(***************************************************************************)
(* A state-machine model of the dashboard's aggregation layer              *)
(* (src/dashboard/app/main.py, src/dashboard/app/settings.py).             *)
(*                                                                         *)
(* One inbound request is a run of its handler: the handler's code between *)
(* two awaits of an upstream call is one atomic step (the handlers run on  *)
(* one event loop).  The upstream services are the environment: each       *)
(* upstream call is answered by a transport failure or by an HTTP response *)
(* whose status and body the environment chooses.                          *)
(*                                                                         *)
(* Optional values (Python None) are sequences: <<>> is None, <<v>> is v.  *)
(***************************************************************************)
EXTENDS Integers, Sequences, FiniteSets, TLC

VARIABLES
    settings,    \* Settings(): field name -> TRUE iff the field holds a non-empty value
    qb_torrents, \* the torrents qBittorrent holds during a listing request, newest first
    pc,          \* position of the request in progress: "idle", "await", "done"
    req,         \* the inbound request in progress (operation and parameters)
    calls,       \* upstream calls issued so far by the request in progress, in order
    inflight,    \* upstream calls issued and not yet answered
    answers,     \* the answers received to those calls, in order
    resp,        \* the response of the request in progress, once pc = "done"
    local,       \* the handler's local variables that live across an await
    _NET_LAST,   \* main.py:33: the last network sample {rx, tx, t}, None while empty
    _DISK_LAST,  \* main.py:34: the last disk-I/O sample {r, w, t}, None while empty
    clock,       \* time.time(), in milliseconds
    anyPoll,     \* TRUE once a /api/system request has arrived since process start
    sys          \* the /api/system requests in progress: poll -> its position and locals

reqvars == <<pc, req, calls, inflight, answers, resp, local>>
sysvars == <<_NET_LAST, _DISK_LAST, clock, anyPoll, sys>>
vars == <<settings, qb_torrents, reqvars, sysvars>>

None == <<>>
Some(v) == <<v>>

Max(a, b) == IF a >= b THEN a ELSE b
Min(a, b) == IF a <= b THEN a ELSE b

----------------------------------------------------------------------------
(* Configuration: settings.py.                                             *)

\* The optional fields of class Settings (settings.py:17-33).
SettingsFields ==
    {"sonarr_url", "sonarr_api_key",
     "radarr_url", "radarr_api_key",
     "qbittorrent_url", "qbittorrent_username", "qbittorrent_password",
     "jellyfin_url", "jellyfin_api_key", "jellyfin_user_id",
     "weather_lat", "weather_lon"}

\* Reading settings.<field>: class Settings ignores unknown environment
\* variables (extra="ignore") and declares no jellyseerr_* field, so reading
\* one raises AttributeError.
HasField(field) == field \in SettingsFields

\* Truthiness of settings.<field> for a declared field.
IsSet(field) == settings[field]

NoRequest == [op |-> "none"]
NoResponse == [code |-> 0]

\* An HTTPException(status_code, detail) leaving the handler.
HttpError(code, outcome, detail) ==
    [code |-> code, outcome |-> outcome, detail |-> detail]

\* Any other exception leaving the handler: the framework answers 500.
Unhandled(error) == [code |-> 500, outcome |-> "Unhandled", detail |-> error]

\* _require(v, name): the first absent value among `fields`, in order.
RECURSIVE _require(_)
_require(fields) ==
    IF fields = <<>> THEN None
    ELSE IF ~IsSet(Head(fields)) THEN Some(Head(fields))
    ELSE _require(Tail(fields))

NotConfigured(field) == HttpError(503, "NotConfigured", field)

----------------------------------------------------------------------------
(* Upstream answers.                                                       *)

\* An upstream call either fails in transport (connect error, timeout) or
\* returns a status and a body.  A body is text; json says whether it
\* parses as JSON and shape what the parsed value is.
\* data holds what the handler reads of the parsed value, as a sequence.
TransportError == [kind |-> "transport", status |-> 0, json |-> FALSE,
                   shape |-> "none", text |-> "", data |-> <<>>]
HttpReply(status, json, shape, text, data) ==
    [kind |-> "http", status |-> status, json |-> json,
     shape |-> shape, text |-> text, data |-> data]

\* Answers to a GET of a JSON system-status endpoint (Sonarr, Radarr, Jellyfin).
StatusAnswers ==
    {TransportError,
     HttpReply(500, FALSE, "none", "error", None),
     HttpReply(200, FALSE, "none", "<html>", None),
     HttpReply(200, TRUE, "list", "[]", None),
     HttpReply(200, TRUE, "dict", "{}", None),
     HttpReply(200, TRUE, "dict", "{version}", Some("4.0"))}

\* Answers to POST /api/v2/auth/login of the torrent client.
LoginAnswers ==
    {TransportError,
     HttpReply(403, FALSE, "none", "Forbidden", None),
     HttpReply(200, FALSE, "none", "Fails.", None),
     HttpReply(200, FALSE, "none", "Ok.", None)}

\* Answers to GET /api/v2/app/version of the torrent client.
VersionAnswers ==
    {TransportError,
     HttpReply(500, FALSE, "none", "error", None),
     HttpReply(200, FALSE, "none", "", None),
     HttpReply(200, FALSE, "none", "4.6", None)}

\* "Ok" in r.text, for the texts above.
ContainsOk(text) == text = "Ok."

Call(service, endpoint) == [service |-> service, endpoint |-> endpoint]

----------------------------------------------------------------------------
(* The process-wide rate-counter state and the /api/system requests.       *)

\* The /api/system requests that may be in progress at once.
Polls == {"p1", "p2"}

\* A poll that is not in progress.
IdlePoll ==
    [pc |-> "idle", first |-> FALSE, login |-> None, transfer |-> None,
     net |-> None, last_net |-> None, disk |-> None, last_disk |-> None,
     now |-> 0, resp |-> None]

\* Process start: both slots are empty dicts (main.py:33-34).
InitSystem ==
    /\ _NET_LAST = None
    /\ _DISK_LAST = None
    /\ clock = 0
    /\ anyPoll = FALSE
    /\ sys = [p \in Polls |-> IdlePoll]

----------------------------------------------------------------------------
(* /api/status: main.py:1369-1441.                                         *)

ServiceStatus(name, ok, detail) == [name |-> name, ok |-> ok, detail |-> detail]

\* The probes in the order status() awaits them (main.py:1429-1434).
Probes == <<"Sonarr", "Radarr", "qBittorrent", "Jellyfin">>

\* The configuration test at the head of each probe.
ProbeConfigured(name) ==
    CASE name = "Sonarr" -> IsSet("sonarr_url") /\ IsSet("sonarr_api_key")
      [] name = "Radarr" -> IsSet("radarr_url") /\ IsSet("radarr_api_key")
      [] name = "qBittorrent" ->
            IsSet("qbittorrent_url") /\ IsSet("qbittorrent_username")
                                     /\ IsSet("qbittorrent_password")
      [] name = "Jellyfin" -> IsSet("jellyfin_url")

\* The first upstream call of a configured probe.
ProbeFirstCall(name) ==
    CASE name = "Sonarr" -> Call("Sonarr", "system/status")
      [] name = "Radarr" -> Call("Radarr", "system/status")
      [] name = "qBittorrent" -> Call("qBittorrent", "auth/login")
      [] name = "Jellyfin" -> Call("Jellyfin", "System/Info/Public")

\* What the environment may answer to a call of a probe.
ProbeAnswers(call) ==
    CASE call.endpoint = "auth/login" -> LoginAnswers
      [] call.endpoint = "app/version" -> VersionAnswers
      [] OTHER -> StatusAnswers

\* The outcome of a probe step: an entry, a further call, or an exception.
ProbeEntry(e) == [kind |-> "entry", entry |-> e, call |-> Call("", ""), error |-> ""]
ProbeCall(c) ==
    [kind |-> "call", entry |-> ServiceStatus("", FALSE, ""), call |-> c, error |-> ""]
ProbeRaise(err) ==
    [kind |-> "raise", entry |-> ServiceStatus("", FALSE, ""), call |-> Call("", ""),
     error |-> err]

HttpDetail(status) == "http " \o ToString(status)
VersionDetail(version) == IF version = None THEN "ok" ELSE "v" \o version[1]

\* _status_sonarr / _status_radarr after the reply (main.py:1374-1379, 1387-1392):
\* no exception is caught.
_status_arr(name, ans) ==
    IF ans.kind = "transport" THEN ProbeRaise("httpx.TransportError")
    ELSE IF ans.status >= 400 THEN
        ProbeEntry(ServiceStatus(name, FALSE, HttpDetail(ans.status)))
    ELSE IF ~ans.json THEN ProbeRaise("JSONDecodeError")
    ELSE IF ans.shape # "dict" THEN ProbeRaise("AttributeError")
    ELSE ProbeEntry(ServiceStatus(name, TRUE, VersionDetail(ans.data)))

\* _status_jellyfin after the reply (main.py:1400-1409): only the JSON
\* parse is guarded.
_status_jellyfin(ans) ==
    IF ans.kind = "transport" THEN ProbeRaise("httpx.TransportError")
    ELSE IF ans.status >= 400 THEN
        ProbeEntry(ServiceStatus("Jellyfin", FALSE, HttpDetail(ans.status)))
    ELSE IF ~ans.json THEN
        ProbeEntry(ServiceStatus("Jellyfin", FALSE, "invalid json (text/html)"))
    ELSE IF ans.shape # "dict" THEN ProbeRaise("AttributeError")
    ELSE ProbeEntry(ServiceStatus("Jellyfin", TRUE, VersionDetail(ans.data)))

_qb_login_status(ans) == ans.kind = "http" /\ ans.status < 400

\* _qb_login after the reply (main.py:1162-1165): TRUE iff login succeeded;
\* a transport failure is an httpx exception, not the HTTPException.
_qb_login(ans) == ans.kind = "http" /\ ans.status < 400 /\ ContainsOk(ans.text)

\* _status_qb after a reply (main.py:1417-1424): only HTTPException is caught
\* around the login.
_status_qb(call, ans) ==
    IF ans.kind = "transport" THEN ProbeRaise("httpx.TransportError")
    ELSE IF call.endpoint = "auth/login" THEN
        IF _qb_login(ans) THEN ProbeCall(Call("qBittorrent", "app/version"))
        ELSE ProbeEntry(ServiceStatus("qBittorrent", FALSE, "qBittorrent login failed"))
    ELSE IF ans.status >= 400 THEN
        ProbeEntry(ServiceStatus("qBittorrent", FALSE, HttpDetail(ans.status)))
    ELSE ProbeEntry(ServiceStatus("qBittorrent", TRUE,
                        IF ans.text = "" THEN "ok" ELSE "v" \o ans.text))

ProbeStep(name, call, ans) ==
    CASE name = "Sonarr" -> _status_arr("Sonarr", ans)
      [] name = "Radarr" -> _status_arr("Radarr", ans)
      [] name = "qBittorrent" -> _status_qb(call, ans)
      [] name = "Jellyfin" -> _status_jellyfin(ans)

\* Mutant: every entry takes part in the overall flag.
CountsForOverall_all(x) == TRUE

\* Whether an entry takes part in the overall flag (main.py:1438).
CountsForOverall(x) == x.detail # "not configured"

\* The body status() returns (main.py:1435-1441).
StatusBody(items) ==
    [code |-> 200, outcome |-> "ok",
     ok |-> \A i \in 1..Len(items) : CountsForOverall(items[i]) => items[i].ok,
     items |-> items]

\* Run the probes from index i until one needs an upstream call: a probe of
\* an unconfigured service returns its entry without suspending.
RECURSIVE StatusAdvance(_, _)
StatusAdvance(i, items) ==
    IF i > Len(Probes) THEN [next |-> i, items |-> items]
    ELSE IF ProbeConfigured(Probes[i]) THEN [next |-> i, items |-> items]
    ELSE StatusAdvance(i + 1,
            Append(items, ServiceStatus(Probes[i], FALSE, "not configured")))

\* The handler ends with response r.
Respond(r) ==
    /\ pc' = "done"
    /\ resp' = r
    /\ inflight' = {}
    /\ calls' = calls

Issue_unsent(c) ==
    /\ pc' = "await"
    /\ resp' = NoResponse
    /\ inflight' = {}
    /\ calls' = calls

\* The handler issues upstream call c and awaits its answer.
Issue(c) ==
    /\ pc' = "await"
    /\ resp' = NoResponse
    /\ inflight' = {c}
    /\ calls' = Append(calls, c)

\* The handler resumes at probe i with the entries so far.
StatusResume(i, items) ==
    LET a == StatusAdvance(i, items) IN
    /\ local' = [idx |-> a.next, items |-> a.items]
    /\ IF a.next > Len(Probes)
       THEN Respond(StatusBody(a.items))
       ELSE Issue(ProbeFirstCall(Probes[a.next]))

\* GET /api/status arrives.
status ==
    /\ pc = "idle"
    /\ req' = [op |-> "status"]
    /\ StatusResume(1, <<>>)
    /\ UNCHANGED <<settings, qb_torrents, answers, sysvars>>

\* The awaited upstream call of the current probe is answered.
StatusReply ==
    /\ pc = "await"
    /\ req.op = "status"
    /\ \E call \in inflight : \E ans \in ProbeAnswers(call) :
         LET step == ProbeStep(Probes[local.idx], call, ans) IN
         /\ answers' = Append(answers, ans)
         /\ CASE step.kind = "raise" ->
                  Respond(Unhandled(step.error)) /\ UNCHANGED local
              [] step.kind = "call" ->
                  Issue(step.call) /\ UNCHANGED local
              [] step.kind = "entry" ->
                  StatusResume(local.idx + 1, Append(local.items, step.entry))
    /\ UNCHANGED <<settings, qb_torrents, req, sysvars>>

NoLocal == [idx |-> 0]

\* The response is sent and the request ends.
Finish ==
    /\ pc = "done"
    /\ pc' = "idle"
    /\ req' = NoRequest
    /\ calls' = <<>>
    /\ answers' = <<>>
    /\ inflight' = {}
    /\ resp' = NoResponse
    /\ local' = NoLocal
    /\ qb_torrents' = <<>>
    /\ UNCHANGED <<settings, sysvars>>

InitRequest ==
    /\ pc = "idle"
    /\ req = NoRequest
    /\ calls = <<>>
    /\ answers = <<>>
    /\ inflight = {}
    /\ resp = NoResponse
    /\ local = NoLocal
    /\ qb_torrents = <<>>

\* Every configuration of the services the status probes read.
StatusSettings ==
    {s \in [SettingsFields -> BOOLEAN] :
        /\ s["jellyfin_api_key"] /\ s["jellyfin_user_id"]
        /\ s["weather_lat"] /\ s["weather_lon"]}

InitStatus == settings \in StatusSettings /\ InitRequest /\ InitSystem

NextStatus == status \/ StatusReply \/ Finish

SpecStatus == InitStatus /\ [][NextStatus]_vars

----------------------------------------------------------------------------
(* /api/system: main.py:629-734.  The memory and disk-usage reads          *)
(* (main.py:636-665) are local, cannot fail the request and touch no       *)
(* shared state; the model starts at the throughput part.                  *)

MaxCounter == 1
MaxTime == 2

\* dt_s = max(0.001, ...): the smallest time difference, in milliseconds.
MinDtMs == 1
\* Milliseconds per second: rates are bytes per second.
MsPerSecond == 1000

\* _read_net_totals_linux() / _read_disk_totals_linux(): (None, None) when
\* unreadable, else two cumulative byte counters.  The two counters of a
\* read move in opposite directions, so that each of them is seen to grow,
\* to stand still and to fall (a reset) between two reads.
CounterReads ==
    {None} \cup {Some([a |-> c, b |-> MaxCounter - c]) : c \in 0..MaxCounter}

RECURSIVE GCD(_, _)
GCD(a, b) == IF b = 0 THEN a ELSE GCD(b, a % b)

\* The float n/d (d > 0), in lowest terms.
Frac(n, d) ==
    LET g == GCD(IF n < 0 THEN -n ELSE n, d) IN [n |-> n \div g, d |-> d \div g]

\* Mutant: the rate is not clamped at zero.
NonNeg_unclamped(f) == f

\* max(0.0, f)
NonNeg(f) == IF f.n < 0 THEN Frac(0, 1) ELSE f

\* dt_s = max(0.001, now - float(last_t)), in milliseconds
ElapsedMs(now, last_t) == Max(MinDtMs, now - last_t)

\* max(0.0, (float(cur) - float(last)) / dt_s), in bytes per second
Rate(cur, last, now, last_t) ==
    NonNeg(Frac((cur - last) * MsPerSecond, ElapsedMs(now, last_t)))

\* A speed field of the torrent client's transfer info: absent (or null or
\* 0), a number, or a value float() rejects.
SpeedFields ==
    {[t |-> "absent", v |-> 0], [t |-> "num", v |-> 2], [t |-> "bad", v |-> 0]}

\* float(x or 0.0) for a field float() accepts
Float(x) == IF x.t = "num" THEN Frac(x.v, 1) ELSE Frac(0, 1)

\* Answers to GET /api/v2/transfer/info.
TransferAnswers ==
    {TransportError,
     HttpReply(500, FALSE, "none", "error", None),
     HttpReply(200, FALSE, "none", "<html>", None),
     HttpReply(200, TRUE, "list", "[]", None)}
    \cup {HttpReply(200, TRUE, "dict", "{...}",
                    Some([dl_info_speed |-> dl, up_info_speed |-> up])) :
            dl \in SpeedFields, up \in SpeedFields}

NetResult(rx_bps, tx_bps, source, last) ==
    [rx_bps |-> rx_bps, tx_bps |-> tx_bps, source |-> source, last |-> last]

\* main.py:679-687 after the transfer-info reply: every exception is
\* swallowed, and what was assigned before it stays assigned.
TransferInfo(ans) ==
    IF ans.kind = "transport" THEN NetResult(None, None, None, None)
    ELSE IF ans.status >= 400 THEN NetResult(None, None, None, None)
    ELSE IF ~ans.json THEN NetResult(None, None, None, None)
    ELSE IF ans.shape # "dict" THEN NetResult(None, None, None, None)
    ELSE IF ans.data[1].dl_info_speed.t = "bad" THEN NetResult(None, None, None, None)
    ELSE IF ans.data[1].up_info_speed.t = "bad" THEN
        NetResult(Some(Float(ans.data[1].dl_info_speed)), None, None, None)
    ELSE NetResult(Some(Float(ans.data[1].dl_info_speed)),
                   Some(Float(ans.data[1].up_info_speed)), Some("qbittorrent"), None)

Sample(read, now) == Some([a |-> read[1].a, b |-> read[1].b, t |-> now])

\* Mutant: the first sample reports a rate of zero.
LocalRates_zero(a_bps, b_bps, source, read, now, last) ==
    IF read = None THEN NetResult(a_bps, b_bps, None, last)
    ELSE NetResult(
            IF last # None THEN Some(Rate(read[1].a, last[1].a, now, last[1].t))
                           ELSE Some(Frac(0, 1)),
            IF last # None THEN Some(Rate(read[1].b, last[1].b, now, last[1].t))
                           ELSE Some(Frac(0, 1)),
            Some(source), Sample(read, now))

\* main.py:690-703 (network, source "container") and main.py:709-722 (disk
\* I/O, source "diskstats"): a_bps and b_bps are the rates assigned so far,
\* read the counters just read, last the slot.
LocalRates(a_bps, b_bps, source, read, now, last) ==
    IF read = None THEN NetResult(a_bps, b_bps, None, last)
    ELSE NetResult(
            IF last # None THEN Some(Rate(read[1].a, last[1].a, now, last[1].t))
                           ELSE a_bps,
            IF last # None THEN Some(Rate(read[1].b, last[1].b, now, last[1].t))
                           ELSE b_bps,
            Some(source), Sample(read, now))

\* The body system() returns (main.py:724-734), throughput part.
SystemBody(n, d) ==
    [network |-> [rxBps |-> n.rx_bps, txBps |-> n.tx_bps, source |-> n.source],
     diskIo |-> [readBps |-> d.rx_bps, writeBps |-> d.tx_bps, source |-> d.source]]

\* Mutant: the torrent client is asked although not fully configured.
QbConfigured_url == IsSet("qbittorrent_url")

\* main.py:674
QbConfigured ==
    IsSet("qbittorrent_url") /\ IsSet("qbittorrent_username")
                             /\ IsSet("qbittorrent_password")

\* main.py:689-734, run without suspension: q is what the torrent client
\* part assigned to rx_bps, tx_bps and net_source.
SystemTail(p, me, q) ==
    \E net \in (IF q.source = None THEN CounterReads ELSE {None}) :
    \E disk \in CounterReads :
        LET n == IF q.source = None
                 THEN LocalRates(q.rx_bps, q.tx_bps, "container", net, clock, _NET_LAST)
                 ELSE NetResult(q.rx_bps, q.tx_bps, q.source, _NET_LAST)
            d == LocalRates(None, None, "diskstats", disk, clock, _DISK_LAST)
        IN /\ _NET_LAST' = n.last
           /\ _DISK_LAST' = d.last
           /\ sys' = [sys EXCEPT ![p] =
                        [me EXCEPT !.pc = "done", !.net = net, !.last_net = _NET_LAST,
                                   !.disk = disk, !.last_disk = _DISK_LAST,
                                   !.now = clock, !.resp = Some(SystemBody(n, d))]]

\* GET /api/system arrives (main.py:629-678).
system(p) ==
    /\ sys[p].pc = "idle"
    /\ anyPoll' = TRUE
    /\ LET me == [IdlePoll EXCEPT !.first = ~anyPoll] IN
       IF QbConfigured
       THEN /\ sys' = [sys EXCEPT ![p] = [me EXCEPT !.pc = "login"]]
            /\ UNCHANGED <<_NET_LAST, _DISK_LAST>>
       ELSE SystemTail(p, me, NetResult(None, None, None, None))
    /\ UNCHANGED <<settings, qb_torrents, reqvars, clock>>

\* The login call is answered (main.py:678-679, 686-687).
SystemLoginReply(p) ==
    /\ sys[p].pc = "login"
    /\ \E ans \in LoginAnswers :
         LET me == [sys[p] EXCEPT !.login = Some(ans)] IN
         IF _qb_login(ans)
         THEN /\ sys' = [sys EXCEPT ![p] = [me EXCEPT !.pc = "transfer"]]
              /\ UNCHANGED <<_NET_LAST, _DISK_LAST>>
         ELSE SystemTail(p, me, NetResult(None, None, None, None))
    /\ UNCHANGED <<settings, qb_torrents, reqvars, clock, anyPoll>>

\* The transfer-info call is answered (main.py:679-734).
SystemTransferReply(p) ==
    /\ sys[p].pc = "transfer"
    /\ \E ans \in TransferAnswers :
         SystemTail(p, [sys[p] EXCEPT !.transfer = Some(ans)], TransferInfo(ans))
    /\ UNCHANGED <<settings, qb_torrents, reqvars, clock, anyPoll>>

\* The response is sent and the request ends.
SystemFinish(p) ==
    /\ sys[p].pc = "done"
    /\ sys' = [sys EXCEPT ![p] = IdlePoll]
    /\ UNCHANGED <<settings, qb_torrents, reqvars, _NET_LAST, _DISK_LAST, clock, anyPoll>>

\* Time passes.
Tick ==
    /\ clock < MaxTime
    /\ clock' = clock + 1
    /\ UNCHANGED <<settings, qb_torrents, reqvars, _NET_LAST, _DISK_LAST, anyPoll, sys>>

\* Every configuration of the torrent client; the other services are set.
SystemSettings ==
    {s \in [SettingsFields -> BOOLEAN] :
        \A f \in SettingsFields :
            f \notin {"qbittorrent_url", "qbittorrent_username", "qbittorrent_password"}
                => s[f]}

InitSys == settings \in SystemSettings /\ InitRequest /\ InitSystem

\* One /api/system request at a time.
NextSystem ==
    \/ Tick
    \/ system("p1")
    \/ SystemLoginReply("p1")
    \/ SystemTransferReply("p1")
    \/ SystemFinish("p1")

SpecSystem == InitSys /\ [][NextSystem]_vars

\* Concurrent /api/system requests: the handlers interleave at their awaits.
\* A handler that returned has its response sent before another handler
\* runs on: sending reads and writes no shared state, so this leaves out no
\* order in which the polls read and write the slots.
NextPolls ==
    \/ Tick
    \/ \E p \in Polls : SystemFinish(p)
    \/ /\ \A q \in Polls : sys[q].pc # "done"
       /\ \E p \in Polls :
             \/ system(p)
             \/ SystemLoginReply(p)
             \/ SystemTransferReply(p)

SpecPolls == InitSys /\ [][NextPolls]_vars

----------------------------------------------------------------------------
(* The adapters: one inbound request translates one upstream service's     *)
(* data.  Dates are day numbers relative to today (today = 0); texts that  *)
(* are only compared or sorted are the integers of their sort order.       *)

MaxItems == 2
MaxQueue == 1

\* main.py:899, 1000, 1050: the widest window of each day-range parameter.
SonarrMaxDays == 30
RadarrMaxDays == 90
SoonMaxDays == 3650
\* main.py:928: the largest number of items a list response carries.
MaxLimit == 50

\* Values of a days / days_future / limit query parameter.
DaysInputs(hi) == {-5, 1, hi, 999999}
LimitInputs == {-5, 0, 1, MaxLimit + 1}

\* All sequences over S of length at most n.
SeqsUpTo(S, n) == UNION {[1..k -> S] : k \in 0..n}

\* Python's `a or b` on optional values.
Or(a, b) == IF a # None THEN a ELSE b

\* seq[:k] for k >= 0.
Take(seq, k) == SubSeq(seq, 1, Min(k, Len(seq)))

ClampDays_nofloor(days, hi) == Min(days, hi)

\* max(1, min(days, hi)): main.py:899, 1000, 1050.
ClampDays(days, hi) == Max(1, Min(days, hi))

\* max(0, min(limit, 50)): main.py:928, 990, 1034, 1156.
ClampLimit(limit) == Max(0, Min(limit, MaxLimit))

\* Tuple / string comparison: a sorts strictly before b.
RECURSIVE LexLess(_, _)
LexLess(a, b) ==
    IF b = <<>> THEN FALSE
    ELSE IF a = <<>> THEN TRUE
    ELSE IF Head(a) # Head(b) THEN Head(a) < Head(b)
    ELSE LexLess(Tail(a), Tail(b))

Sorted_asis(s) == s

\* sorted(items, key=...) is stable: an element goes before another when its
\* key is smaller, or the keys are equal and it came earlier, and its place
\* is one more than the number of elements that go before it.  Elements are
\* [k |-> key, v |-> item]; es pairs every element with its index.
Sorted(s) ==
    LET Before(x, y) ==
            \/ LexLess(x[2].k, y[2].k)
            \/ ~LexLess(y[2].k, x[2].k) /\ x[1] < y[1]
        Arrange(es) ==
            [p \in 1..Cardinality(es) |->
                (CHOOSE y \in es :
                    p = 1 + Cardinality({x \in es : Before(x, y)}))[2]]
    IN  CHOOSE t \in {Arrange(es) :
                        es \in {{<<i, s[i]>> : i \in 1..Len(s)}}} : TRUE

\* An upstream GET with its query parameters.
Get(service, endpoint, params) ==
    [service |-> service, endpoint |-> endpoint, params |-> params]

\* raise HTTPException(502, f"<service> error (<status>)").
UpstreamRejected(service, code) ==
    HttpError(502, "UpstreamRejected",
              service \o " error (" \o ToString(code) \o ")")

\* `r = await client.get(...)`, the status test and `r.json()` with no
\* try around them (main.py:905-909, 954-958, 1006-1010, 1054-1057): the
\* error that leaves the handler, None when the body parsed.
Unguarded(service, ans) ==
    IF ans.kind = "transport" THEN Some(Unhandled("httpx.TransportError"))
    ELSE IF ans.status >= 400 THEN Some(UpstreamRejected(service, ans.status))
    ELSE IF ~ans.json THEN Some(Unhandled("JSONDecodeError"))
    ELSE None

\* Answers to a GET that should return a JSON array of records.  A JSON
\* object answer iterates as its keys, which are not records.
ListAnswers(universe, n) ==
    {TransportError,
     HttpReply(500, FALSE, "none", "error", None),
     HttpReply(200, FALSE, "none", "<html>", None),
     HttpReply(200, TRUE, "dict", "{message}",
               <<CHOOSE x \in universe : ~x.isDict>>)}
    \cup {HttpReply(200, TRUE, "list", "[...]", items) :
            items \in SeqsUpTo(universe, n)}

\* x.get(...) on every element: fails on the first element that is no dict.
AllDicts(items) == \A i \in 1..Len(items) : items[i].isDict

\* A successful response body.
Ok(body) == [code |-> 200, outcome |-> "ok", body |-> body]

----------------------------------------------------------------------------
(* /api/sonarr/upcoming: main.py:893-928.                                  *)

\* A calendar entry; a field is None when absent.
Episode(airDateUtc, airDate, title) ==
    [isDict |-> TRUE, airDateUtc |-> airDateUtc, airDate |-> airDate,
     title |-> title]

\* Answers to the calendar call.  Entries: UTC and local air date, local
\* date only, no date, and an entry that is no dict.
EpisodeAnswers ==
    ListAnswers({Episode(Some(2), Some(2), 1), Episode(None, Some(1), 2),
                 Episode(None, None, 3),
                 [isDict |-> FALSE, airDateUtc |-> None, airDate |-> None,
                  title |-> 0]},
                MaxItems)

\* The calendar window [today, today + days].
CalendarCall(service, days) == Get(service, "calendar", <<0, days>>)

\* The body of a calendar response (main.py:928, 1034).
CalendarBody(days, limit, out) ==
    [rangeDays |-> days, count |-> Min(limit, Len(out)),
     items |-> Take(out, ClampLimit(limit))]

SonarrUpcomingResult(days, limit, ans) ==
    LET err == Unguarded("Sonarr", ans) IN
    IF err # None THEN err[1]
    ELSE IF ~AllDicts(ans.data) THEN Unhandled("AttributeError")
    ELSE LET \* sort_key: str(airDateUtc or airDate or ""); "" sorts first
             keyed == [i \in 1..Len(ans.data) |->
                          [k |-> Or(ans.data[i].airDateUtc, ans.data[i].airDate),
                           v |-> ans.data[i]]]
             sorted == Sorted(keyed)
             out == [i \in 1..Len(sorted) |->
                       [episodeTitle |-> sorted[i].v.title,
                        airDateUtc |-> Or(sorted[i].v.airDateUtc,
                                          sorted[i].v.airDate)]]
         IN Ok(CalendarBody(days, limit, out))

\* GET /api/sonarr/upcoming?days=&limit= arrives.
sonarr_upcoming ==
    /\ pc = "idle"
    /\ \E days \in DaysInputs(SonarrMaxDays), limit \in LimitInputs :
         /\ req' = [op |-> "sonarr_upcoming", days |-> days, limit |-> limit]
         /\ LET miss == _require(<<"sonarr_url", "sonarr_api_key">>) IN
            IF miss # None THEN Respond(NotConfigured(miss[1]))
            ELSE Issue(CalendarCall("Sonarr", ClampDays(days, SonarrMaxDays)))
    /\ UNCHANGED <<settings, qb_torrents, answers, local, sysvars>>

\* The calendar call is answered.
SonarrUpcomingReply ==
    /\ pc = "await"
    /\ req.op = "sonarr_upcoming"
    /\ \E ans \in EpisodeAnswers :
         /\ answers' = Append(answers, ans)
         /\ Respond(SonarrUpcomingResult(req.days, req.limit, ans))
    /\ UNCHANGED <<settings, qb_torrents, req, local, sysvars>>

----------------------------------------------------------------------------
(* /api/radarr/upcoming and /api/radarr/soon: main.py:994-1157.            *)

\* A date string of a movie resource: its text order d and whether
\* _parse_date accepts it.  The sentinel "0001-01-01T00:00:00Z" is a
\* string that sorts before every real date and parses to None.
DateStr(d) == Some([valid |-> TRUE, d |-> d])
Sentinel == Some([valid |-> FALSE, d |-> -999999])

\* _parse_date(value): main.py:127-144.
_parse_date(value) ==
    IF value = None THEN None
    ELSE IF ~value[1].valid THEN None
    ELSE Some(value[1].d)

\* A movie resource; id is None when the "id" field is absent or no int.
Movie(id, monitored, hasFile, digital, physical, inCinemas, title) ==
    [isDict |-> TRUE, id |-> id, monitored |-> monitored, hasFile |-> hasFile,
     digitalRelease |-> digital, physicalRelease |-> physical,
     inCinemas |-> inCinemas, premiereDate |-> None, title |-> title]

\* Movies of the library: one on disk, one long out in cinemas only, two
\* due in two days, one unmonitored (on disk or not), one with the
\* sentinel date, one without an integer id, and an entry that is no dict.
MovieUniverse ==
    {Movie(Some(1), TRUE, TRUE, DateStr(-5), None, None, 2),
     Movie(Some(2), TRUE, FALSE, None, None, DateStr(-100), 1),
     Movie(Some(3), TRUE, FALSE, DateStr(2), None, None, 1),
     Movie(Some(6), TRUE, FALSE, None, DateStr(2), None, 0),
     Movie(Some(5), TRUE, FALSE, Sentinel, None, None, 3),
     Movie(None, TRUE, FALSE, DateStr(-5), None, None, 4),
     [isDict |-> FALSE, id |-> None, monitored |-> FALSE, hasFile |-> FALSE,
      digitalRelease |-> None, physicalRelease |-> None,
      inCinemas |-> None, premiereDate |-> None, title |-> 0]}
    \cup {Movie(Some(4), FALSE, f, DateStr(-5), None, None, 5) : f \in BOOLEAN}

\* pick_date (main.py:1012-1020): the first date string present.
pick_date(x) ==
    Or(x.digitalRelease, Or(x.physicalRelease, Or(x.inCinemas, x.premiereDate)))

RadarrUpcomingResult(days, limit, ans) ==
    LET err == Unguarded("Radarr", ans) IN
    IF err # None THEN err[1]
    ELSE IF ~AllDicts(ans.data) THEN Unhandled("AttributeError")
    ELSE LET \* the text order of str(pick_date(x)); "" sorts first
             keyed == [i \in 1..Len(ans.data) |->
                          [k |-> IF pick_date(ans.data[i]) = None THEN <<>>
                                 ELSE <<pick_date(ans.data[i])[1].d>>,
                           v |-> ans.data[i]]]
             sorted == Sorted(keyed)
             out == [i \in 1..Len(sorted) |->
                       [title |-> sorted[i].v.title,
                        releaseDate |-> pick_date(sorted[i].v),
                        hasFile |-> sorted[i].v.hasFile]]
         IN Ok(CalendarBody(days, limit, out))

\* GET /api/radarr/upcoming?days=&limit= arrives.
radarr_upcoming ==
    /\ pc = "idle"
    /\ \E days \in DaysInputs(RadarrMaxDays), limit \in LimitInputs :
         /\ req' = [op |-> "radarr_upcoming", days |-> days, limit |-> limit]
         /\ LET miss == _require(<<"radarr_url", "radarr_api_key">>) IN
            IF miss # None THEN Respond(NotConfigured(miss[1]))
            ELSE Issue(CalendarCall("Radarr", ClampDays(days, RadarrMaxDays)))
    /\ UNCHANGED <<settings, qb_torrents, answers, local, sysvars>>

\* The calendar call is answered.
RadarrUpcomingReply ==
    /\ pc = "await"
    /\ req.op = "radarr_upcoming"
    /\ \E ans \in ListAnswers(MovieUniverse, MaxItems) :
         /\ answers' = Append(answers, ans)
         /\ Respond(RadarrUpcomingResult(req.days, req.limit, ans))
    /\ UNCHANGED <<settings, qb_torrents, req, local, sysvars>>

\* Answers to GET /api/v3/queue: failures, a JSON array, an object without
\* "records", an object with a "records" list.  A record of the queue is a
\* dict whose movieId is None when absent or no int, or it is no dict.
QueueAnswers ==
    {TransportError,
     HttpReply(500, FALSE, "none", "error", None),
     HttpReply(200, FALSE, "none", "<html>", None),
     HttpReply(200, TRUE, "list", "[]", None),
     HttpReply(200, TRUE, "dict", "{}", None)}
    \cup {HttpReply(200, TRUE, "dict", "{records}", recs) :
            recs \in SeqsUpTo(
                {[isDict |-> TRUE, movieId |-> id] :
                    id \in {Some(1), Some(3), Some(4), None}}
                \cup {[isDict |-> FALSE, movieId |-> None]},
                MaxQueue)}

\* The loop of main.py:1067-1070: a record that is no dict raises inside
\* the try, which ends the loop and keeps the ids added so far.
RECURSIVE QueuedIdsOf(_)
QueuedIdsOf(recs) ==
    IF recs = <<>> THEN {}
    ELSE IF ~Head(recs).isDict THEN {}
    ELSE (IF Head(recs).movieId # None THEN {Head(recs).movieId[1]} ELSE {})
         \cup QueuedIdsOf(Tail(recs))

\* queued_ids after the try block of main.py:1060-1073.
QueuedIds(ans) ==
    IF ans.kind = "transport" \/ ans.status >= 400 \/ ~ans.json
       \/ ans.shape # "dict"
    THEN {}
    ELSE QueuedIdsOf(ans.data)

\* pick_release_date: main.py:1075-1082.
pick_release_date(x) ==
    Or(_parse_date(x.digitalRelease),
       Or(_parse_date(x.physicalRelease),
          Or(_parse_date(x.inCinemas), _parse_date(x.premiereDate))))

Qualifies_fileless(m, queued_ids) ==
    /\ m.id # None
    /\ m.monitored
    /\ ~m.hasFile

\* The three `continue` tests of main.py:1086-1094.
Qualifies(m, queued_ids) ==
    /\ m.id # None
    /\ m.monitored
    /\ ~(m.hasFile /\ m.id[1] \notin queued_ids)

\* main.py:1098-1107.
Reason(m, queued_ids) ==
    LET release_date == pick_release_date(m) IN
    IF m.id[1] \in queued_ids THEN "Queued"
    ELSE IF release_date # None /\ release_date[1] <= 0 THEN "Missing"
    ELSE "Unreleased"

BeyondHorizon_any(m, queued_ids, max_future) ==
    LET release_date == pick_release_date(m) IN
    /\ release_date # None
    /\ release_date[1] > max_future

\* main.py:1109-1111.
BeyondHorizon(m, queued_ids, max_future) ==
    LET release_date == pick_release_date(m) IN
    /\ Reason(m, queued_ids) = "Unreleased"
    /\ release_date # None
    /\ release_date[1] > max_future

\* main.py:1113-1133, the icons in the order they are appended.
MissingIcons(m, queued_ids) ==
    LET release_date == pick_release_date(m)
        in_cinemas == _parse_date(m.inCinemas)
        digital == _parse_date(m.digitalRelease)
        physical == _parse_date(m.physicalRelease)
    IN IF Reason(m, queued_ids) # "Missing" THEN <<>>
       ELSE (IF in_cinemas # None /\ in_cinemas[1] <= 0
                /\ digital = None /\ physical = None
             THEN <<"cinema">> ELSE <<>>)
            \o (IF physical # None /\ physical[1] > 0 THEN <<"disc">> ELSE <<>>)
            \o <<"search">>
            \o (IF release_date # None /\ 0 - release_date[1] >= 90
                THEN <<"globe">> ELSE <<>>)

SoonOut(m, queued_ids) ==
    [id |-> m.id[1], title |-> m.title,
     releaseDate |-> pick_release_date(m),
     reason |-> Reason(m, queued_ids),
     hasFile |-> m.hasFile, monitored |-> m.monitored,
     missingIcons |-> MissingIcons(m, queued_ids)]

\* The loop of main.py:1085-1148.
RECURSIVE SoonLoop(_, _, _)
SoonLoop(movies, queued_ids, max_future) ==
    IF movies = <<>> THEN <<>>
    ELSE LET m == Head(movies)
             rest == SoonLoop(Tail(movies), queued_ids, max_future)
         IN IF Qualifies(m, queued_ids) /\ ~BeyondHorizon(m, queued_ids, max_future)
            THEN <<SoonOut(m, queued_ids)>> \o rest
            ELSE rest

RadarrSoonResult_strict(days_future, limit, movies, queue) ==
    LET err == Unguarded("Radarr", queue) IN
    IF err # None THEN err[1]
    ELSE Ok([rangeDaysFuture |-> days_future, count |-> 0, items |-> <<>>])

\* main.py:1074-1157, after the queue call returned or failed.
RadarrSoonResult(days_future, limit, movies, queue) ==
    IF ~AllDicts(movies.data) THEN Unhandled("AttributeError")
    ELSE LET max_future == ClampDays(days_future, SoonMaxDays)
             out == SoonLoop(movies.data, QueuedIds(queue), max_future)
             \* sort_key: (unknown, releaseDate or "", title)
             keyed == [i \in 1..Len(out) |->
                          [k |-> IF out[i].releaseDate = None
                                 THEN <<1, 0, out[i].title>>
                                 ELSE <<0, out[i].releaseDate[1], out[i].title>>,
                           v |-> out[i]]]
             sorted == Sorted(keyed)
             out_sorted == Take([i \in 1..Len(sorted) |-> sorted[i].v],
                                ClampLimit(limit))
         IN Ok([rangeDaysFuture |-> days_future, count |-> Len(out_sorted),
                items |-> out_sorted])

\* GET /api/radarr/soon?days_future=&limit= arrives.
radarr_soon ==
    /\ pc = "idle"
    /\ \E days_future \in DaysInputs(SoonMaxDays), limit \in LimitInputs :
         /\ req' = [op |-> "radarr_soon", days |-> days_future, limit |-> limit]
         /\ LET miss == _require(<<"radarr_url", "radarr_api_key">>) IN
            IF miss # None THEN Respond(NotConfigured(miss[1]))
            ELSE Issue(Get("Radarr", "movie", <<>>))
    /\ UNCHANGED <<settings, qb_torrents, answers, local, sysvars>>

\* The movie-list call is answered.
RadarrSoonMovies ==
    /\ pc = "await"
    /\ req.op = "radarr_soon"
    /\ Len(calls) = 1
    /\ \E ans \in ListAnswers(MovieUniverse, MaxItems) :
         /\ answers' = Append(answers, ans)
         /\ LET err == Unguarded("Radarr", ans) IN
            IF err # None THEN Respond(err[1])
            ELSE Issue(Get("Radarr", "queue", <<>>))
    /\ UNCHANGED <<settings, qb_torrents, req, local, sysvars>>

\* The queue call is answered.
RadarrSoonQueue ==
    /\ pc = "await"
    /\ req.op = "radarr_soon"
    /\ Len(calls) = 2
    /\ \E ans \in QueueAnswers :
         /\ answers' = Append(answers, ans)
         /\ Respond(RadarrSoonResult(req.days, req.limit, answers[1], ans))
    /\ UNCHANGED <<settings, qb_torrents, req, local, sysvars>>

----------------------------------------------------------------------------
(* /api/sonarr/importing: main.py:931-991.                                 *)

\* str.lower() on the texts the model uses.
Lower(text) ==
    CASE text = "ImportPending" -> "importpending"
      [] text = "Processing" -> "processing"
      [] text = "stalledDL" -> "stalleddl"
      [] text = "pausedDL" -> "pauseddl"
      [] text = "Episode" -> "episode"
      [] text = "Movie" -> "movie"
      [] text = "TV" -> "tv"
      [] OTHER -> text

\* `word in text` for a lower-case text of the model.
Contains(text, word) ==
    <<text, word>> \in {<<"importpending", "import">>,
                        <<"processing", "process">>,
                        <<"moving", "move">>}

\* A record of Sonarr's queue.  timeleft and seriesTitle are texts, each a
\* sequence of character codes, None when absent.
ImportRecord(st, state, timeleft, seriesTitle) ==
    [isDict |-> TRUE, status |-> st, trackedDownloadState |-> state,
     timeleft |-> timeleft, seriesTitle |-> seriesTitle]

\* Answers to GET /api/v3/queue of Sonarr.
ImportAnswers ==
    {TransportError,
     HttpReply(500, FALSE, "none", "error", None),
     HttpReply(200, FALSE, "none", "<html>", None),
     HttpReply(200, TRUE, "list", "[]", None),
     HttpReply(200, TRUE, "dict", "{}", None)}
    \cup {HttpReply(200, TRUE, "dict", "{records}", recs) :
            recs \in SeqsUpTo(
                {ImportRecord("completed", "ImportPending", Some(<<1>>),
                              Some(<<2, 5>>)),
                 ImportRecord("Processing", "", Some(<<1, 2>>), Some(<<1>>)),
                 ImportRecord("downloading", "downloading", Some(<<1>>),
                              Some(<<1>>)),
                 ImportRecord("", "moving", None, None),
                 [isDict |-> FALSE, status |-> "", trackedDownloadState |-> "",
                  timeleft |-> None, seriesTitle |-> None]},
                MaxItems)}

\* main.py:968-971: the record is being imported, processed or moved.
IsImporting(rec) ==
    \E word \in {"import", "process", "move"} :
        \/ Contains(Lower(rec.status), word)
        \/ Contains(Lower(rec.trackedDownloadState), word)

\* The loop of main.py:964-985.
RECURSIVE ImportLoop(_)
ImportLoop(records) ==
    IF records = <<>> THEN <<>>
    ELSE LET rec == Head(records) IN
         IF rec.isDict /\ IsImporting(rec)
         THEN <<[seriesTitle |-> rec.seriesTitle,
                 status |-> IF rec.status = "" THEN None ELSE Some(rec.status),
                 trackedDownloadState |->
                    IF rec.trackedDownloadState = "" THEN None
                    ELSE Some(rec.trackedDownloadState),
                 timeleft |-> rec.timeleft]>>
              \o ImportLoop(Tail(records))
         ELSE ImportLoop(Tail(records))

\* sk: str(timeleft or "") + str(seriesTitle or ""): main.py:987-988.
ImportKey(x) ==
    (IF x.timeleft = None THEN <<>> ELSE x.timeleft[1])
    \o (IF x.seriesTitle = None THEN <<>> ELSE x.seriesTitle[1])

SonarrImportingResult(limit, ans) ==
    LET err == Unguarded("Sonarr", ans) IN
    IF err # None THEN err[1]
    ELSE IF ans.shape # "dict"
         THEN Ok([count |-> 0, items |-> <<>>])
    ELSE LET out == ImportLoop(ans.data)
             keyed == [i \in 1..Len(out) |-> [k |-> ImportKey(out[i]), v |-> out[i]]]
             sorted == Sorted(keyed)
             items == Take([i \in 1..Len(sorted) |-> sorted[i].v],
                           ClampLimit(limit))
         IN Ok([count |-> Len(items), items |-> items])

\* GET /api/sonarr/importing?limit= arrives.
sonarr_importing ==
    /\ pc = "idle"
    /\ \E limit \in LimitInputs :
         /\ req' = [op |-> "sonarr_importing", limit |-> limit]
         /\ LET miss == _require(<<"sonarr_url", "sonarr_api_key">>) IN
            IF miss # None THEN Respond(NotConfigured(miss[1]))
            ELSE Issue(Get("Sonarr", "queue", <<>>))
    /\ UNCHANGED <<settings, qb_torrents, answers, local, sysvars>>

\* The queue call is answered.
SonarrImportingReply ==
    /\ pc = "await"
    /\ req.op = "sonarr_importing"
    /\ \E ans \in ImportAnswers :
         /\ answers' = Append(answers, ans)
         /\ Respond(SonarrImportingResult(req.limit, ans))
    /\ UNCHANGED <<settings, qb_torrents, req, local, sysvars>>

----------------------------------------------------------------------------
(* /api/jellyseerr/search, /tv/{media_id}, /request: main.py:209-497.      *)
(* Each handler starts by reading settings.jellyseerr_url (main.py:216,    *)
(* 400, 475), a field class Settings does not declare: the read raises     *)
(* AttributeError, so no later line of these handlers is ever reached.     *)

\* str.strip() on a text, a sequence of characters.
RECURSIVE Strip(_)
Strip(q) ==
    IF q # <<>> /\ Head(q) = " " THEN Strip(Tail(q))
    ELSE IF q # <<>> /\ q[Len(q)] = " " THEN Strip(SubSeq(q, 1, Len(q) - 1))
    ELSE q

\* GET /api/jellyseerr/search?query=&type= arrives.  After the read of
\* the URL come the URL check, the query-length check, then the search
\* call, whose headers (and so the API-key check) are evaluated inside the
\* try that turns any exception into a 502 (main.py:216-231).
jellyseerr_search ==
    /\ pc = "idle"
    /\ \E query \in {<<>>, <<"a">>, <<"a", " ">>, <<"a", "b">>, <<"a", "b", "c">>},
          type \in {"tv", "movie"} :
         /\ req' = [op |-> "jellyseerr_search", query |-> query, type |-> type]
         /\ IF ~HasField("jellyseerr_url")
            THEN Respond(Unhandled("AttributeError"))
            ELSE IF ~IsSet("jellyseerr_url")
                 THEN Respond(NotConfigured("jellyseerr_url"))
            ELSE IF Len(Strip(query)) < 2
                 THEN Respond(Ok([count |-> 0, items |-> <<>>]))
            ELSE IF ~HasField("jellyseerr_api_key") \/ ~IsSet("jellyseerr_api_key")
                 THEN Respond(HttpError(502, "UpstreamUnreachable", "jellyseerr"))
            ELSE Issue(Get("Jellyseerr", "search", Strip(query)))
    /\ UNCHANGED <<settings, qb_torrents, answers, local, sysvars>>

\* GET /api/jellyseerr/tv/{media_id} arrives.
jellyseerr_tv ==
    /\ pc = "idle"
    /\ \E media_id \in {1, 2} :
         /\ req' = [op |-> "jellyseerr_tv", media_id |-> media_id]
         /\ IF ~HasField("jellyseerr_url")
            THEN Respond(Unhandled("AttributeError"))
            ELSE IF ~IsSet("jellyseerr_url")
                 THEN Respond(NotConfigured("jellyseerr_url"))
            ELSE IF ~HasField("jellyseerr_api_key")
                 THEN Respond(Unhandled("AttributeError"))
            ELSE IF ~IsSet("jellyseerr_api_key")
                 THEN Respond(NotConfigured("jellyseerr_api_key"))
            ELSE Issue(Get("Jellyseerr", "tv", <<media_id>>))
    /\ UNCHANGED <<settings, qb_torrents, answers, local, sysvars>>

\* POST /api/jellyseerr/request arrives with a valid body.
jellyseerr_request ==
    /\ pc = "idle"
    /\ \E mediaId \in {1, 2}, mediaType \in {"tv", "movie"} :
         /\ req' = [op |-> "jellyseerr_request", mediaId |-> mediaId,
                    mediaType |-> mediaType]
         /\ IF ~HasField("jellyseerr_url")
            THEN Respond(Unhandled("AttributeError"))
            ELSE IF ~IsSet("jellyseerr_url")
                 THEN Respond(NotConfigured("jellyseerr_url"))
            ELSE IF ~HasField("jellyseerr_api_key")
                 THEN Respond(Unhandled("AttributeError"))
            ELSE IF ~IsSet("jellyseerr_api_key")
                 THEN Respond(NotConfigured("jellyseerr_api_key"))
            ELSE Issue(Get("Jellyseerr", "request", <<mediaId>>))
    /\ UNCHANGED <<settings, qb_torrents, answers, local, sysvars>>

----------------------------------------------------------------------------
(* /api/qbittorrent/torrents: main.py:1168-1233.                           *)

Torrent(name, state, dlspeed, upspeed) ==
    [isDict |-> TRUE, name |-> name, state |-> state,
     dlspeed |-> dlspeed, upspeed |-> upspeed]

\* main.py:1192-1200.
active_states ==
    {"downloading", "metadl", "stalleddl", "queueddl", "checkingdl",
     "allocating", "forceddl"}

IsActive_speed(t) ==
    \/ t.dlspeed > 0
    \/ t.upspeed > 0

\* The test of the list comprehension at main.py:1201-1207.
IsActive(t) ==
    \/ t.dlspeed > 0
    \/ t.upspeed > 0
    \/ Lower(t.state) \in active_states

\* limit is not None and limit > 0.
HasLimit(limit) == limit # None /\ limit[1] > 0

\* The listing call: "active" is filtered here, so upstream is asked for
\* "all"; the limit is passed on only when positive (main.py:1179-1186).
TorrentsCall(filter, limit) ==
    Get("qBittorrent", "torrents/info",
        [filter |-> IF filter = "active" THEN "all" ELSE filter,
         limit |-> IF HasLimit(limit) THEN limit ELSE None])

\* What qBittorrent may hold: torrents, and an element that is no record.
TorrentUniverse ==
    {Torrent(1, "downloading", 7, 0), Torrent(2, "pausedDL", 0, 0),
     Torrent(3, "stalledDL", 0, 0), Torrent(4, "uploading", 0, 3),
     [isDict |-> FALSE, name |-> 0, state |-> "", dlspeed |-> 0,
      upspeed |-> 0]}

\* qBittorrent's own filter: "all" keeps every torrent, "downloading" the
\* torrents in a downloading state.
RECURSIVE UpstreamFilter(_, _)
UpstreamFilter(filter, torrents) ==
    IF torrents = <<>> THEN <<>>
    ELSE IF filter = "all" \/ Lower(Head(torrents).state) \in active_states
         THEN <<Head(torrents)>> \o UpstreamFilter(filter, Tail(torrents))
         ELSE UpstreamFilter(filter, Tail(torrents))

\* qBittorrent's listing for the call: sorted by added_on, newest first,
\* filtered, and cut to `limit` when the call carries one.
UpstreamListing(call) ==
    LET passing == UpstreamFilter(call.params.filter, qb_torrents) IN
    IF call.params.limit = None THEN passing
    ELSE Take(passing, call.params.limit[1])

\* Answers to the listing call: a failure, or the listing.
TorrentAnswers(call) ==
    {ans \in ListAnswers(TorrentUniverse, MaxItems) :
        ans.shape = "list" => ans.data = UpstreamListing(call)}

RECURSIVE ActiveOnly(_)
ActiveOnly(torrents) ==
    IF torrents = <<>> THEN <<>>
    ELSE IF IsActive(Head(torrents))
         THEN <<Head(torrents)>> \o ActiveOnly(Tail(torrents))
         ELSE ActiveOnly(Tail(torrents))

\* main.py:1187-1233, after the listing call returned.
TorrentsResult(filter, limit, ans) ==
    LET err == Unguarded("qBittorrent", ans) IN
    IF err # None THEN err[1]
    ELSE IF filter = "active" /\ ~AllDicts(ans.data)
         THEN Unhandled("AttributeError")
    ELSE IF ans.shape = "dict" /\ HasLimit(limit) THEN Unhandled("TypeError")
    ELSE LET torrents == IF filter = "active" THEN ActiveOnly(ans.data)
                         ELSE ans.data
             view == IF HasLimit(limit) THEN Take(torrents, limit[1])
                     ELSE torrents
         IN IF ~AllDicts(view) THEN Unhandled("AttributeError")
            ELSE Ok([filter |-> filter, count |-> Len(view),
                     items |-> [i \in 1..Len(view) |->
                                  [name |-> view[i].name, state |-> view[i].state,
                                   dlspeed |-> view[i].dlspeed,
                                   upspeed |-> view[i].upspeed]]])

\* GET /api/qbittorrent/torrents?filter=&limit= arrives.
qbittorrent_torrents ==
    /\ pc = "idle"
    /\ \E filter \in {"all", "downloading", "active"},
          limit \in {None, Some(0), Some(1)} :
         /\ req' = [op |-> "qbittorrent_torrents", filter |-> filter,
                    limit |-> limit]
         /\ LET miss == _require(<<"qbittorrent_url", "qbittorrent_username",
                                   "qbittorrent_password">>) IN
            IF miss # None
            THEN Respond(NotConfigured(miss[1])) /\ UNCHANGED qb_torrents
            ELSE /\ Issue(Get("qBittorrent", "auth/login", <<>>))
                 /\ qb_torrents' \in SeqsUpTo(TorrentUniverse, MaxItems)
    /\ UNCHANGED <<settings, answers, local, sysvars>>

\* The login call is answered (_qb_login, main.py:1160-1165).
TorrentsLoginReply ==
    /\ pc = "await"
    /\ req.op = "qbittorrent_torrents"
    /\ Len(calls) = 1
    /\ \E ans \in LoginAnswers :
         /\ answers' = Append(answers, ans)
         /\ IF ans.kind = "transport"
            THEN Respond(Unhandled("httpx.TransportError"))
            ELSE IF ~_qb_login(ans)
                 THEN Respond(HttpError(502, "UpstreamRejected",
                                        "qBittorrent login failed"))
            ELSE Issue(TorrentsCall(req.filter, req.limit))
    /\ UNCHANGED <<settings, qb_torrents, req, local, sysvars>>

\* The listing call is answered.
TorrentsListReply ==
    /\ pc = "await"
    /\ req.op = "qbittorrent_torrents"
    /\ Len(calls) = 2
    /\ \E ans \in TorrentAnswers(calls[2]) :
         /\ answers' = Append(answers, ans)
         /\ Respond(TorrentsResult(req.filter, req.limit, ans))
    /\ UNCHANGED <<settings, qb_torrents, req, local, sysvars>>

----------------------------------------------------------------------------
(* /api/jellyfin/latest and /api/jellyfin/items/{item_id}/image:           *)
(* main.py:1236-1366.                                                      *)

\* settings.jellyfin_latest_limit (settings.py:34).
JellyfinLatestLimit == 12

\* max(lo, min(v, hi)).
Clamp(v, lo, hi) == Max(lo, Min(v, hi))

\* An item of the latest list; SeriesId is None for a movie.
MediaItem(id, type, seriesId) ==
    [isDict |-> TRUE, Id |-> id, Type |-> type, SeriesId |-> seriesId]

\* raise HTTPException(502, {"service": "jellyfin", "status": ...}).
JellyfinRejected(code) ==
    HttpError(502, "UpstreamRejected", "jellyfin status " \o ToString(code))

\* raise HTTPException(502, {... "error": "invalid json" ...}).
JellyfinMalformed(code) ==
    HttpError(502, "UpstreamMalformed", "jellyfin invalid json " \o ToString(code))

\* _require(settings.jellyfin_url), then _jellyfin_headers() evaluated as an
\* argument of the first client.get: the first absent value.
JellyfinRequire == _require(<<"jellyfin_url", "jellyfin_api_key">>)

\* lim: main.py:1244.
LatestLimit(limit) ==
    Clamp(IF limit = None \/ limit[1] = 0 THEN JellyfinLatestLimit ELSE limit[1],
          1, MaxLimit)

\* Answers to the latest call: upstream returns at most Limit items.
LatestAnswers(call) ==
    {ans \in ListAnswers(
                {MediaItem(1, "Movie", None), MediaItem(2, "Episode", Some("s1")),
                 MediaItem(3, "Episode", Some("s2")),
                 [isDict |-> FALSE, Id |-> 0, Type |-> "", SeriesId |-> None]},
                MaxItems) :
        Len(ans.data) <= call.params[1]}

\* series_ids: main.py:1289-1297.
SeriesIds(items) ==
    {items[i].SeriesId[1] :
        i \in {j \in 1..Len(items) :
                 /\ items[j].isDict
                 /\ Lower(items[j].Type) = "episode"
                 /\ items[j].SeriesId # None}}

\* Answers to a series follow-up: data is <<RecursiveItemCount,
\* UnplayedItemCount>>, each None when absent or no int.
SeriesAnswers ==
    {TransportError,
     HttpReply(500, FALSE, "none", "error", None),
     HttpReply(200, FALSE, "none", "<html>", None),
     HttpReply(200, TRUE, "list", "[]", None)}
    \cup {HttpReply(200, TRUE, "dict", "{counts}", <<total, unplayed>>) :
            total \in {None, Some(0), Some(3)},
            unplayed \in {None, Some(1), Some(5)}}

SeriesProgress_nonneg(ans) ==
    IF ans.kind = "transport" \/ ans.status >= 400 \/ ~ans.json
       \/ ans.shape # "dict"
    THEN None
    ELSE LET total == ans.data[1]
             unplayed == ans.data[2]
         IN IF total # None /\ total[1] >= 0 /\ unplayed # None /\ unplayed[1] >= 0
            THEN Some([watched |-> Max(0, total[1] - unplayed[1]),
                       total |-> total[1]])
            ELSE None

\* The body of the follow-up loop (main.py:1300-1315): the progress entry
\* of the series, None when the follow-up yields none.
SeriesProgress(ans) ==
    IF ans.kind = "transport" \/ ans.status >= 400 \/ ~ans.json
       \/ ans.shape # "dict"
    THEN None
    ELSE LET total == ans.data[1]
             unplayed == ans.data[2]
         IN IF total # None /\ total[1] > 0 /\ unplayed # None /\ unplayed[1] >= 0
            THEN Some([watched |-> Max(0, total[1] - unplayed[1]),
                       total |-> total[1]])
            ELSE None

\* main.py:1317-1349.
LatestResult(items, series_progress) ==
    IF ~AllDicts(items) THEN Unhandled("AttributeError")
    ELSE Ok([count |-> Len(items),
             items |-> [i \in 1..Len(items) |->
                 [id |-> items[i].Id, type |-> items[i].Type,
                  seriesId |-> items[i].SeriesId,
                  seriesProgress |->
                     IF items[i].SeriesId # None
                        /\ items[i].SeriesId[1] \in DOMAIN series_progress
                     THEN Some(series_progress[items[i].SeriesId[1]])
                     ELSE None]]])

LatestResume_again(items, pending, series_progress) ==
    IF pending = {}
    THEN /\ Respond(LatestResult(items, series_progress))
         /\ local' = [idx |-> 0, pending |-> {}, sid |-> "",
                      series_progress |-> series_progress]
    ELSE \E sid \in pending :
           /\ Issue(Get("Jellyfin", "Users/Items", <<sid>>))
           /\ local' = [idx |-> 0,
                        pending |-> IF Len(calls) < 2 THEN pending
                                    ELSE pending \ {sid},
                        sid |-> sid, series_progress |-> series_progress]

\* The follow-up loop takes the next series of the set, in any order, or
\* the handler builds its response when none is left.  The locals kept
\* across the follow-up calls: the series still to ask for, the one asked
\* for, and the progress entries so far.
LatestResume(items, pending, series_progress) ==
    IF pending = {}
    THEN /\ Respond(LatestResult(items, series_progress))
         /\ local' = [idx |-> 0, pending |-> {}, sid |-> "",
                      series_progress |-> series_progress]
    ELSE \E sid \in pending :
           /\ Issue(Get("Jellyfin", "Users/Items", <<sid>>))
           /\ local' = [idx |-> 0, pending |-> pending \ {sid}, sid |-> sid,
                        series_progress |-> series_progress]

\* GET /api/jellyfin/latest?limit= arrives.
jellyfin_latest ==
    /\ pc = "idle"
    /\ \E limit \in {None, Some(0), Some(1), Some(MaxLimit + 1)} :
         /\ req' = [op |-> "jellyfin_latest", limit |-> limit]
         /\ IF JellyfinRequire # None
            THEN Respond(NotConfigured(JellyfinRequire[1]))
            ELSE Issue(Get("Jellyfin",
                           IF IsSet("jellyfin_user_id")
                           THEN "Users/Items/Latest" ELSE "Items/Latest",
                           <<LatestLimit(limit)>>))
    /\ UNCHANGED <<settings, qb_torrents, answers, local, sysvars>>

\* The latest call is answered.
LatestReply ==
    /\ pc = "await"
    /\ req.op = "jellyfin_latest"
    /\ Len(calls) = 1
    /\ \E ans \in LatestAnswers(calls[1]) :
         /\ answers' = Append(answers, ans)
         /\ IF ans.kind = "transport"
            THEN Respond(Unhandled("httpx.TransportError")) /\ UNCHANGED local
            ELSE IF ans.status >= 400
                 THEN Respond(JellyfinRejected(ans.status)) /\ UNCHANGED local
            ELSE IF ~ans.json
                 THEN Respond(JellyfinMalformed(ans.status)) /\ UNCHANGED local
            ELSE LatestResume(ans.data,
                              IF IsSet("jellyfin_user_id")
                              THEN SeriesIds(ans.data) ELSE {},
                              <<>>)
    /\ UNCHANGED <<settings, qb_torrents, req, sysvars>>

\* A series follow-up is answered.
LatestSeriesReply ==
    /\ pc = "await"
    /\ req.op = "jellyfin_latest"
    /\ Len(calls) > 1
    /\ \E ans \in SeriesAnswers :
         LET sp == SeriesProgress(ans) IN
         /\ answers' = Append(answers, ans)
         /\ LatestResume(answers[1].data, local.pending,
                IF sp = None THEN local.series_progress
                ELSE (local.sid :> sp[1]) @@ local.series_progress)
    /\ UNCHANGED <<settings, qb_torrents, req, sysvars>>

\* Answers to the image call: data is the content-type header.
ImageAnswers ==
    {TransportError,
     HttpReply(404, FALSE, "none", "", None),
     HttpReply(200, FALSE, "none", "bytes", None),
     HttpReply(200, FALSE, "none", "bytes", Some("image/png"))}

\* GET /api/jellyfin/items/{item_id}/image?maxHeight=&quality= arrives.
jellyfin_primary_image ==
    /\ pc = "idle"
    /\ \E maxHeight \in {0, 240, 9999}, quality \in {0, 80, 100} :
         /\ req' = [op |-> "jellyfin_primary_image", maxHeight |-> maxHeight,
                    quality |-> quality]
         /\ IF JellyfinRequire # None
            THEN Respond(NotConfigured(JellyfinRequire[1]))
            ELSE Issue(Get("Jellyfin", "Images/Primary",
                           <<Clamp(maxHeight, 80, 600), Clamp(quality, 10, 95)>>))
    /\ UNCHANGED <<settings, qb_torrents, answers, local, sysvars>>

\* The image call is answered.
ImageReply ==
    /\ pc = "await"
    /\ req.op = "jellyfin_primary_image"
    /\ \E ans \in ImageAnswers :
         /\ answers' = Append(answers, ans)
         /\ IF ans.kind = "transport"
            THEN Respond(Unhandled("httpx.TransportError"))
            ELSE IF ans.status >= 400
                 THEN Respond(JellyfinRejected(ans.status))
            ELSE Respond(Ok([media_type |-> IF ans.data = None THEN "image/jpeg"
                                            ELSE ans.data[1]]))
    /\ UNCHANGED <<settings, qb_torrents, req, local, sysvars>>

----------------------------------------------------------------------------
(* The result filter of /api/jellyseerr/search: main.py:268-360.  It is a  *)
(* function of the parsed upstream body and the requested type, and is     *)
(* modelled on its own: no request reaches it while the settings field is  *)
(* not declared.                                                           *)

\* An ID field as it arrives: absent, an integer, a string (of digits or
\* not, v being its value when of digits), or a value of another JSON type.
RawId(t, v) == [t |-> t, v |-> v]

\* A search result; mediaType is "" when absent.
SearchResult(mediaType, tmdbId, id) ==
    [isDict |-> TRUE, mediaType |-> mediaType, tmdbId |-> tmdbId, id |-> id]

SearchUniverse ==
    {SearchResult("tv", RawId("int", 1), RawId("none", 0)),
     SearchResult("TV", RawId("digits", 42), RawId("none", 0)),
     SearchResult("movie", RawId("int", 3), RawId("int", 3)),
     SearchResult("tv", RawId("none", 0), RawId("int", 4)),
     SearchResult("tv", RawId("text", 0), RawId("int", 5)),
     SearchResult("tv", RawId("none", 0), RawId("other", 6)),
     SearchResult("", RawId("int", 8), RawId("none", 0)),
     [isDict |-> FALSE, mediaType |-> "", tmdbId |-> RawId("none", 0),
      id |-> RawId("none", 0)]}

TmdbId_either(it) ==
    IF it.tmdbId.t \in {"int", "digits"} THEN Some(it.tmdbId.v)
    ELSE IF it.id.t \in {"int", "digits", "other"} THEN Some(it.id.v)
    ELSE None

\* tmdb_id: main.py:299-310.  The "id" field is read only when "tmdbId" is
\* absent or null.
TmdbId(it) ==
    LET tmdb_raw == IF it.tmdbId.t = "none" THEN it.id ELSE it.tmdbId IN
    IF tmdb_raw.t \in {"int", "digits"} THEN Some(tmdb_raw.v) ELSE None

\* The loop of main.py:282-358.
RECURSIVE SearchLoop(_, _)
SearchLoop(results, wanted) ==
    IF results = <<>> THEN <<>>
    ELSE LET it == Head(results)
             rest == SearchLoop(Tail(results), wanted)
         IN IF ~it.isDict THEN rest
            ELSE IF Lower(it.mediaType) # wanted THEN rest
            ELSE IF TmdbId(it) = None THEN rest
            ELSE <<[mediaType |-> Lower(it.mediaType),
                    mediaId |-> TmdbId(it)[1]]>> \o rest

\* The response built from the "results" list: main.py:360.
SearchBody(results, type) ==
    LET out == SearchLoop(results, Lower(type)) IN
    Ok([count |-> Len(out), items |-> Take(out, MaxLimit)])

\* The filter is applied to a results list.
SearchResults ==
    /\ pc = "idle"
    /\ \E type \in {"tv", "movie"},
          results \in SeqsUpTo(SearchUniverse, MaxItems) :
         /\ req' = [op |-> "search_results", type |-> type]
         /\ answers' = <<HttpReply(200, TRUE, "dict", "{results}", results)>>
         /\ resp' = SearchBody(results, type)
    /\ pc' = "done"
    /\ UNCHANGED <<settings, qb_torrents, calls, inflight, local, sysvars>>

InitSearch ==
    /\ settings = [f \in SettingsFields |-> TRUE]
    /\ InitRequest
    /\ InitSystem

NextSearch == SearchResults \/ Finish

SpecSearch == InitSearch /\ [][NextSearch]_vars

----------------------------------------------------------------------------
(* /api/weather and /api/weather/forecast: main.py:156-206, 500-605.       *)
(* The label and the timezone are copied from the settings and the answer  *)
(* and are left out.                                                       *)

\* Answers of the forecast service.  data holds the parsed object: its
\* "current" object (absent, or with is_day as it arrives), the is_day
\* column of "hourly" (as long as the time column) and the time column of
\* "daily".
WeatherAnswers ==
    {TransportError,
     [TransportError EXCEPT !.kind = "timeout"],
     HttpReply(500, FALSE, "none", "error", <<>>),
     HttpReply(200, FALSE, "none", "<html>", <<>>),
     HttpReply(200, TRUE, "list", "[]", <<>>)}
    \cup {HttpReply(200, TRUE, "dict", "{...}",
                    <<[current |-> current, hourly |-> hourly, daily |-> daily]>>) :
            current \in {None} \cup {Some([temperature_2m |-> 5, is_day |-> d]) :
                                       d \in {RawId("none", 0), RawId("int", 1),
                                              RawId("text", 0)}},
            hourly \in {<<>>, <<RawId("int", 0)>>, <<RawId("text", 0)>>},
            daily \in {<<>>, <<1>>}}

WeatherCaught_raise(ans) ==
    IF ans.kind = "timeout" THEN Some(Unhandled("httpx.TimeoutException"))
    ELSE IF ans.kind = "transport" \/ ans.status >= 400 \/ ~ans.json
         THEN Some(Ok([configured |-> TRUE, error |-> "unavailable"]))
    ELSE None

\* The try block around the call (main.py:174-188, 521-534): the response
\* an except branch returns, None when the body parsed.  The HTTPException
\* raised for a status >= 400 is itself caught by `except Exception`.
WeatherCaught(ans) ==
    IF ans.kind = "timeout" THEN Some(Ok([configured |-> TRUE, error |-> "timeout"]))
    ELSE IF ans.kind = "transport" \/ ans.status >= 400 \/ ~ans.json
         THEN Some(Ok([configured |-> TRUE, error |-> "unavailable"]))
    ELSE None

\* bool(int(is_day)) if is_day is not None else None, for a value int()
\* accepts.
IsDay(is_day) == IF is_day.t = "none" THEN None ELSE Some(is_day.v # 0)

\* main.py:190-206.
WeatherBody(ans) ==
    IF ans.shape # "dict" \/ ans.data[1].current = None
    THEN Ok([configured |-> TRUE, error |-> "no current"])
    ELSE LET cur == ans.data[1].current[1] IN
         IF cur.is_day.t \in {"text", "other"} THEN Unhandled("ValueError")
         ELSE Ok([configured |-> TRUE, tempC |-> cur.temperature_2m,
                  isDay |-> IsDay(cur.is_day)])

\* main.py:536-605.
ForecastBody(ans) ==
    IF ans.shape # "dict"
    THEN Ok([configured |-> TRUE, current |-> None, hourly |-> <<>>, daily |-> <<>>])
    ELSE LET data == ans.data[1]
             raw == (IF data.current = None THEN {}
                     ELSE {data.current[1].is_day})
                    \cup {data.hourly[i] : i \in 1..Len(data.hourly)}
         IN IF \E d \in raw : d.t \in {"text", "other"} THEN Unhandled("ValueError")
            ELSE Ok([configured |-> TRUE,
                     current |-> IF data.current = None THEN None
                                 ELSE Some([tempC |-> data.current[1].temperature_2m,
                                            isDay |-> IsDay(data.current[1].is_day)]),
                     hourly |-> [i \in 1..Len(data.hourly) |->
                                   [isDay |-> IsDay(data.hourly[i])]],
                     daily |-> [i \in 1..Len(data.daily) |->
                                   [date |-> data.daily[i]]]])

\* GET /api/weather arrives.
weather ==
    /\ pc = "idle"
    /\ req' = [op |-> "weather"]
    /\ IF ~IsSet("weather_lat") \/ ~IsSet("weather_lon")
       THEN Respond(Ok([configured |-> FALSE]))
       ELSE Issue(Get("weather", "forecast", <<>>))
    /\ UNCHANGED <<settings, qb_torrents, answers, local, sysvars>>

\* The call of /api/weather is answered.
WeatherReply ==
    /\ pc = "await"
    /\ req.op = "weather"
    /\ \E ans \in WeatherAnswers :
         /\ answers' = Append(answers, ans)
         /\ IF WeatherCaught(ans) # None THEN Respond(WeatherCaught(ans)[1])
            ELSE Respond(WeatherBody(ans))
    /\ UNCHANGED <<settings, qb_torrents, req, local, sysvars>>

\* GET /api/weather/forecast?days= arrives.
weather_forecast ==
    /\ pc = "idle"
    /\ \E days \in {-5, 7, 99} :
         /\ req' = [op |-> "weather_forecast", days |-> days]
         /\ IF ~IsSet("weather_lat") \/ ~IsSet("weather_lon")
            THEN Respond(Ok([configured |-> FALSE]))
            ELSE Issue(Get("weather", "forecast", <<Clamp(days, 1, 14)>>))
    /\ UNCHANGED <<settings, qb_torrents, answers, local, sysvars>>

\* The call of /api/weather/forecast is answered.
ForecastReply ==
    /\ pc = "await"
    /\ req.op = "weather_forecast"
    /\ \E ans \in WeatherAnswers :
         /\ answers' = Append(answers, ans)
         /\ IF WeatherCaught(ans) # None THEN Respond(WeatherCaught(ans)[1])
            ELSE Respond(ForecastBody(ans))
    /\ UNCHANGED <<settings, qb_torrents, req, local, sysvars>>

----------------------------------------------------------------------------
(* The adapter requests as one specification.                              *)

\* Everything configured, nothing configured, and one service configured
\* except for one of its fields.
AdapterSettings ==
    LET Services ==
            {{"sonarr_url", "sonarr_api_key"},
             {"radarr_url", "radarr_api_key"},
             {"qbittorrent_url", "qbittorrent_username", "qbittorrent_password"},
             {"jellyfin_url", "jellyfin_api_key", "jellyfin_user_id"},
             {"weather_lat", "weather_lon"}}
    IN {[f \in SettingsFields |-> TRUE], [f \in SettingsFields |-> FALSE]}
       \cup UNION {{[f \in SettingsFields |-> f \in S \ {g}] : g \in S} :
                     S \in Services}

InitAdapters == settings \in AdapterSettings /\ InitRequest /\ InitSystem

NextAdapters ==
    \/ weather
    \/ WeatherReply
    \/ weather_forecast
    \/ ForecastReply
    \/ sonarr_upcoming
    \/ SonarrUpcomingReply
    \/ radarr_upcoming
    \/ RadarrUpcomingReply
    \/ radarr_soon
    \/ RadarrSoonMovies
    \/ RadarrSoonQueue
    \/ sonarr_importing
    \/ SonarrImportingReply
    \/ qbittorrent_torrents
    \/ TorrentsLoginReply
    \/ TorrentsListReply
    \/ jellyfin_latest
    \/ LatestReply
    \/ LatestSeriesReply
    \/ jellyfin_primary_image
    \/ ImageReply
    \/ jellyseerr_search
    \/ jellyseerr_tv
    \/ jellyseerr_request
    \/ Finish

SpecAdapters == InitAdapters /\ [][NextAdapters]_vars

\* Every request of the adapters and of /api/status, each upstream call
\* being eventually answered or timed out: a step of an awaiting request
\* is the arrival of the answer to its pending call.
NextLive == NextAdapters \/ status \/ StatusReply

SpecLive ==
    InitAdapters /\ [][NextLive]_vars /\ WF_vars(pc = "await" /\ NextLive)

----------------------------------------------------------------------------
(* Claims about /api/status, checked under SpecStatus.                     *)

StatusResponded == pc = "done" /\ req.op = "status" /\ resp.code = 200

\* C2: whenever /api/status responds, overall ok is the conjunction of ok
\* over exactly the entries whose detail is not "not configured"; these are
\* the entries of the configured services, so an unconfigured service never
\* makes overall ok false and a configured service with ok = FALSE does.
C2_OverallOk ==
    StatusResponded =>
        /\ Len(resp.items) = Len(Probes)
        /\ resp.ok = (\A i \in 1..Len(resp.items) :
                        resp.items[i].detail # "not configured" => resp.items[i].ok)
        /\ \A i \in 1..Len(resp.items) :
              /\ resp.items[i].name = Probes[i]
              /\ (resp.items[i].detail = "not configured") <=> ~ProbeConfigured(Probes[i])
              /\ ~ProbeConfigured(Probes[i]) => ~resp.items[i].ok
              /\ (ProbeConfigured(Probes[i]) /\ ~resp.items[i].ok) => ~resp.ok
        /\ ((\A i \in 1..Len(Probes) : ~ProbeConfigured(Probes[i])) => resp.ok)

\* C2 witness: a response whose overall ok is TRUE although one service is
\* unconfigured, next to a configured service that answered.
C2_Witness ==
    /\ StatusResponded
    /\ resp.ok
    /\ \E i, j \in 1..Len(resp.items) :
          /\ resp.items[i].detail = "not configured"
          /\ resp.items[j].ok

\* A probe's upstream call that failed in transport, or whose success body
\* does not parse although the probe reads it as JSON.
ProbeFailed(k) ==
    \/ answers[k].kind = "transport"
    \/ /\ calls[k].service # "qBittorrent"
       /\ answers[k].kind = "http" /\ answers[k].status < 400 /\ ~answers[k].json

\* C3: if the probe of a configured service fails with a transport error or
\* an unparseable body, /api/status still responds with one entry per
\* service, the failing service's entry has ok = FALSE and overall ok is FALSE.
C3_FaultIsolated ==
    (pc = "done" /\ req.op = "status") =>
        \A k \in 1..Len(answers) :
            ProbeFailed(k) =>
                /\ resp.code = 200
                /\ Len(resp.items) = Len(Probes)
                /\ ~resp.ok
                /\ \A i \in 1..Len(resp.items) :
                      resp.items[i].name = calls[k].service => ~resp.items[i].ok

----------------------------------------------------------------------------
(* Claims about /api/system, checked under SpecSystem.                     *)

PollDone(p) == sys[p].pc = "done"
Network(p) == sys[p].resp[1].network
DiskIo(p) == sys[p].resp[1].diskIo

\* The torrent client answered the transfer-info call with a JSON object.
GotTransferObject(p) ==
    /\ sys[p].transfer # None
    /\ sys[p].transfer[1].kind = "http" /\ sys[p].transfer[1].status < 400
    /\ sys[p].transfer[1].json /\ sys[p].transfer[1].shape = "dict"

IsRate(rate, cur, prev, dt) ==
    /\ rate # None
    /\ rate[1].n * dt = Max(0, cur - prev) * MsPerSecond * rate[1].d

\* The poll computed local rates against a prior sample.
NetComputed(p) == PollDone(p) /\ sys[p].net # None /\ sys[p].last_net # None
DiskComputed(p) == PollDone(p) /\ sys[p].disk # None /\ sys[p].last_disk # None

\* C5 as stated: with a prior sample, each local rate is
\* max(0, (current counter - previous counter) / (current time - previous time)).
C5_Original ==
    \A p \in Polls :
        /\ NetComputed(p) =>
             LET dt == sys[p].now - sys[p].last_net[1].t IN
             /\ IsRate(Network(p).rxBps, sys[p].net[1].a, sys[p].last_net[1].a, dt)
             /\ IsRate(Network(p).txBps, sys[p].net[1].b, sys[p].last_net[1].b, dt)
        /\ DiskComputed(p) =>
             LET dt == sys[p].now - sys[p].last_disk[1].t IN
             /\ IsRate(DiskIo(p).readBps, sys[p].disk[1].a, sys[p].last_disk[1].a, dt)
             /\ IsRate(DiskIo(p).writeBps, sys[p].disk[1].b, sys[p].last_disk[1].b, dt)

\* A rate that is max(0, delta / max(0.001 s, elapsed)): zero after a counter
\* reset, and never negative.
IsClampedRate(rate, cur, prev, elapsed) ==
    /\ IsRate(rate, cur, prev, Max(MinDtMs, elapsed))
    /\ rate[1].n >= 0 /\ rate[1].d > 0
    /\ cur < prev => rate[1].n = 0

\* C5 as amended: with a prior sample, each local network and disk-I/O rate
\* is max(0, (current counter - previous counter) / max(0.001 s, current
\* time - previous time)); a counter that decreased yields exactly 0 and no
\* such rate is negative.
C5_ClampedRate ==
    \A p \in Polls :
        /\ NetComputed(p) =>
             LET el == sys[p].now - sys[p].last_net[1].t IN
             /\ IsClampedRate(Network(p).rxBps, sys[p].net[1].a, sys[p].last_net[1].a, el)
             /\ IsClampedRate(Network(p).txBps, sys[p].net[1].b, sys[p].last_net[1].b, el)
        /\ DiskComputed(p) =>
             LET el == sys[p].now - sys[p].last_disk[1].t IN
             /\ IsClampedRate(DiskIo(p).readBps, sys[p].disk[1].a, sys[p].last_disk[1].a, el)
             /\ IsClampedRate(DiskIo(p).writeBps, sys[p].disk[1].b, sys[p].last_disk[1].b, el)

\* C5 witness: two milliseconds after the prior sample one network counter
\* has fallen (rate 0) and the other has grown by one byte (500 bytes/s).
C5_Witness ==
    \E p \in Polls :
        /\ NetComputed(p)
        /\ sys[p].now - sys[p].last_net[1].t = 2
        /\ sys[p].net[1].a < sys[p].last_net[1].a
        /\ sys[p].net[1].b = sys[p].last_net[1].b + 1
        /\ Network(p).rxBps = Some([n |-> 0, d |-> 1])
        /\ Network(p).txBps = Some([n |-> 500, d |-> 1])

\* A success answer carrying a JSON object whose two speeds float() accepts.
WellFormedTransfer(ans) ==
    /\ ans.kind = "http" /\ ans.status < 400 /\ ans.json /\ ans.shape = "dict"
    /\ ans.data[1].dl_info_speed.t # "bad"
    /\ ans.data[1].up_info_speed.t # "bad"

\* C6: network.source is "qbittorrent" exactly when the torrent client is
\* fully configured and, in this poll, its login and its transfer-info call
\* both succeed with a well-formed body; in every other case the poll still
\* responds, with source "container" when the local counters are readable
\* and source null when they are not.
C6_SourceSelection ==
    \A p \in Polls :
        PollDone(p) =>
            /\ sys[p].resp # None
            /\ (Network(p).source = Some("qbittorrent")) <=>
                  /\ settings["qbittorrent_url"]
                  /\ settings["qbittorrent_username"]
                  /\ settings["qbittorrent_password"]
                  /\ sys[p].login # None /\ sys[p].login[1].kind = "http"
                  /\ sys[p].login[1].status < 400 /\ ContainsOk(sys[p].login[1].text)
                  /\ sys[p].transfer # None /\ WellFormedTransfer(sys[p].transfer[1])
            /\ Network(p).source # Some("qbittorrent") =>
                  Network(p).source = (IF sys[p].net # None THEN Some("container") ELSE None)
            /\ (sys[p].login # None \/ sys[p].transfer # None) =>
                  (settings["qbittorrent_url"] /\ settings["qbittorrent_username"]
                                               /\ settings["qbittorrent_password"])

\* C6 witness: a configured torrent client whose transfer-info call failed
\* with HTTP 500 after a successful login, and a poll that fell back to the
\* local counters.
C6_Witness ==
    \E p \in Polls :
        /\ PollDone(p)
        /\ sys[p].transfer # None /\ sys[p].transfer[1].status = 500
        /\ Network(p).source = Some("container")

----------------------------------------------------------------------------
(* Claims about the adapters, checked under SpecAdapters.                  *)

\* The request in progress is `op` and has ended with a success response.
Succeeded(op) == pc = "done" /\ req.op = op /\ resp.code = 200

\* The configuration values an adapter operation requires.
RequiredConfig(op) ==
    CASE op \in {"sonarr_upcoming", "sonarr_importing"} ->
            {"sonarr_url", "sonarr_api_key"}
      [] op \in {"radarr_upcoming", "radarr_soon"} ->
            {"radarr_url", "radarr_api_key"}
      [] op = "qbittorrent_torrents" ->
            {"qbittorrent_url", "qbittorrent_username", "qbittorrent_password"}
      [] op \in {"jellyfin_latest", "jellyfin_primary_image"} ->
            {"jellyfin_url", "jellyfin_api_key"}
      [] op \in {"jellyseerr_search", "jellyseerr_tv", "jellyseerr_request"} ->
            {"jellyseerr_url", "jellyseerr_api_key"}
      [] OTHER -> {}

\* The configuration value is absent: not declared, unset or empty.
Absent(field) == field \notin DOMAIN settings \/ ~settings[field]

\* C1: for every adapter operation, when a required configuration value is
\* absent the request ends with NotConfigured (HTTP 503) and no upstream
\* call was issued during the request.
C1_NotConfigured ==
    (pc = "done" /\ \E field \in RequiredConfig(req.op) : Absent(field)) =>
        /\ resp.code = 503
        /\ resp.outcome = "NotConfigured"
        /\ calls = <<>>

\* A day-range value brought into [1, hi].
InRange(days, hi) == IF days < 1 THEN 1 ELSE IF days > hi THEN hi ELSE days

\* Two responses carry the same outcome and, on success, the same items
\* and count.
SameItems(r, s) ==
    /\ r.code = s.code
    /\ r.code = 200 => /\ r.body.items = s.body.items
                       /\ r.body.count = s.body.count

\* C7: the day-range parameter is clamped to [1,30] (TV upcoming), [1,90]
\* (movie upcoming) and [1,3650] (movie soon): a request issues the upstream
\* window, and returns the items and count, of the request with the clamped
\* value.
C7_DaysClamped ==
    /\ (req.op = "sonarr_upcoming" /\ calls # <<>>) =>
          LET c == InRange(req.days, 30) IN
          /\ calls[1].params = <<0, c>>
          /\ calls[1] = CalendarCall("Sonarr", ClampDays(c, SonarrMaxDays))
          /\ pc = "done" =>
                SameItems(resp, SonarrUpcomingResult(c, req.limit, answers[1]))
    /\ (req.op = "radarr_upcoming" /\ calls # <<>>) =>
          LET c == InRange(req.days, 90) IN
          /\ calls[1].params = <<0, c>>
          /\ calls[1] = CalendarCall("Radarr", ClampDays(c, RadarrMaxDays))
          /\ pc = "done" =>
                SameItems(resp, RadarrUpcomingResult(c, req.limit, answers[1]))
    /\ (pc = "done" /\ req.op = "radarr_soon" /\ Len(answers) = 2) =>
          LET c == InRange(req.days, 3650) IN
          SameItems(resp, RadarrSoonResult(c, req.limit, answers[1], answers[2]))

\* A movie-soon request with days_future = 999999 returned a movie that is
\* due within the clamped horizon.
C7_Witness ==
    /\ Succeeded("radarr_soon")
    /\ req.days = 999999
    /\ \E k \in 1..Len(resp.body.items) :
          /\ resp.body.items[k].reason = "Unreleased"
          /\ resp.body.items[k].releaseDate # None

\* The limit brought into [0, 50].
LimitInRange(limit) == IF limit < 0 THEN 0 ELSE IF limit > 50 THEN 50 ELSE limit

\* C8: the limit of TV upcoming, movie upcoming, movie soon and importing is
\* clamped to [0,50]: the response's count and items are those of the
\* request with the clamped limit.
C8_LimitClamped ==
    LET c == LimitInRange(req.limit) IN
    /\ Succeeded("sonarr_upcoming") =>
          SameItems(resp, SonarrUpcomingResult(req.days, c, answers[1]))
    /\ Succeeded("radarr_upcoming") =>
          SameItems(resp, RadarrUpcomingResult(req.days, c, answers[1]))
    /\ Succeeded("radarr_soon") =>
          SameItems(resp, RadarrSoonResult(req.days, c, answers[1], answers[2]))
    /\ Succeeded("sonarr_importing") =>
          SameItems(resp, SonarrImportingResult(c, answers[1]))

\* The movie is present in the download queue the second call returned.
InQueue(id) ==
    LET queue == answers[2] IN
    /\ queue.kind = "http" /\ queue.status < 400 /\ queue.json
    /\ queue.shape = "dict"
    /\ \E i \in 1..Len(queue.data) :
          queue.data[i].isDict /\ queue.data[i].movieId = Some(id)

\* Every record of the queue answer is a well-formed record.
QueueReadable == \A i \in 1..Len(answers[2].data) : answers[2].data[i].isDict

\* The response carries an item for the movie.
Returned(id) ==
    \E k \in 1..Len(resp.body.items) : resp.body.items[k].id = id

\* C9: movie soon selects a movie iff it is monitored and (has no file or is
\* in the queue).  Every returned item is a selected movie; a monitored
\* movie on disk that is in the queue is returned with reason "Queued", the
\* same movie absent from the queue is not returned, an unmonitored movie
\* is never returned; and a selected movie is returned unless the limit
\* cuts the list or, being unreleased, its date lies beyond the horizon.
C9_SoonSelection ==
    (Succeeded("radarr_soon") /\ QueueReadable) =>
        LET movies == answers[1].data
            uncut == req.limit >= Len(movies)
        IN
        /\ \A k \in 1..Len(resp.body.items) :
              \E i \in 1..Len(movies) :
                 /\ movies[i].id = Some(resp.body.items[k].id)
                 /\ movies[i].monitored
                 /\ ~movies[i].hasFile \/ InQueue(resp.body.items[k].id)
        /\ \A i \in 1..Len(movies) :
              LET m == movies[i] IN
              m.id # None =>
                 /\ ~m.monitored => ~Returned(m.id[1])
                 /\ (m.monitored /\ m.hasFile /\ ~InQueue(m.id[1])) =>
                       ~Returned(m.id[1])
                 /\ (m.monitored /\ m.hasFile /\ InQueue(m.id[1]) /\ uncut) =>
                       \E k \in 1..Len(resp.body.items) :
                          /\ resp.body.items[k].id = m.id[1]
                          /\ resp.body.items[k].reason = "Queued"
                 /\ (m.monitored /\ (~m.hasFile \/ InQueue(m.id[1])) /\ uncut
                     /\ ~Returned(m.id[1])) =>
                       /\ ~InQueue(m.id[1])
                       /\ pick_release_date(m) # None
                       /\ pick_release_date(m)[1] > InRange(req.days, 3650)

\* A monitored movie with a file that is in the queue was returned as
\* "Queued", next to an unmonitored movie that was left out.
C9_Witness ==
    /\ Succeeded("radarr_soon")
    /\ QueueReadable
    /\ \E i \in 1..Len(answers[1].data) :
          LET m == answers[1].data[i] IN
          /\ m.id # None /\ m.monitored /\ m.hasFile /\ InQueue(m.id[1])
          /\ Returned(m.id[1])
    /\ \E i \in 1..Len(answers[1].data) :
          LET m == answers[1].data[i] IN
          m.id # None /\ ~m.monitored /\ ~Returned(m.id[1])

\* C10: a search whose query is shorter than 2 characters returns
\* {count: 0, items: []} with no upstream call; a query of 2 or more
\* characters triggers exactly one upstream search call when the service
\* is configured.
C10_ShortQuery ==
    (pc = "done" /\ req.op = "jellyseerr_search") =>
        /\ Len(req.query) < 2 =>
              /\ resp = Ok([count |-> 0, items |-> <<>>])
              /\ calls = <<>>
        /\ (Len(req.query) >= 2
            /\ \A field \in RequiredConfig(req.op) : ~Absent(field)) =>
              Len(calls) = 1

----------------------------------------------------------------------------
(* Claims about the search result filter, checked under SpecSearch.        *)

\* The ID the upstream result carries in the field the handler reads: its
\* value when that field is an integer or a string of digits.
ValidId(it) ==
    LET field == IF it.tmdbId.t = "none" THEN it.id ELSE it.tmdbId IN
    IF field.t = "int" \/ field.t = "digits" THEN Some(field.v) ELSE None

\* C11: every item returned by the search has the requested media type
\* (compared case-insensitively) and an integer mediaId taken from an ID
\* field that was an integer or a numeric string; results of the other type
\* and results with no valid ID in either field never appear.
C11_SearchFilter ==
    (pc = "done" /\ req.op = "search_results") =>
        LET results == answers[1].data
            items == resp.body.items
        IN
        /\ \A k \in 1..Len(items) :
              /\ items[k].mediaType = Lower(req.type)
              /\ \E i \in 1..Len(results) :
                    /\ results[i].isDict
                    /\ Lower(results[i].mediaType) = Lower(req.type)
                    /\ ValidId(results[i]) = Some(items[k].mediaId)
        /\ \A i \in 1..Len(results) :
              (\/ ~results[i].isDict
               \/ Lower(results[i].mediaType) # Lower(req.type)
               \/ /\ results[i].tmdbId.t \notin {"int", "digits"}
                  /\ results[i].id.t \notin {"int", "digits"}) =>
                 \A k \in 1..Len(items) :
                    /\ items[k].mediaId # results[i].tmdbId.v
                    /\ items[k].mediaId # results[i].id.v

\* A tv search kept a result typed "TV" whose ID arrived as a numeric
\* string and dropped a movie result.
C11_Witness ==
    /\ pc = "done" /\ req.op = "search_results" /\ req.type = "tv"
    /\ Len(answers[1].data) = 2
    /\ \E i \in 1..2 : answers[1].data[i].mediaType = "movie"
    /\ \E i \in 1..2 : answers[1].data[i].tmdbId.t = "digits"
    /\ Len(resp.body.items) = 1
    /\ resp.body.items[1].mediaId = 42

----------------------------------------------------------------------------
(* Claims about the torrent listing, checked under SpecAdapters.           *)

\* The upstream item counts as active: a nonzero speed or an active state.
KeptAsActive(t) ==
    \/ t.dlspeed # 0
    \/ t.upspeed # 0
    \/ Lower(t.state) \in {"downloading", "metadl", "stalleddl", "queueddl",
                           "checkingdl", "allocating", "forceddl"}

\* items is the subsequence of the upstream list `data` at the indexes
\* `kept`, in order.
IsSubsequenceAt(items, data, kept) ==
    /\ Len(items) = Cardinality(kept)
    /\ \A i \in kept :
          LET k == Cardinality({j \in kept : j <= i}) IN
          /\ items[k].name = data[i].name
          /\ items[k].state = data[i].state

\* C12: with filter=active the listing keeps an upstream item iff a speed
\* is nonzero or its state, lower-cased, is in the active-state set, and
\* upstream is asked for "all", never "active"; any other filter value is
\* passed upstream unchanged and the upstream list is not filtered.
C12_ActiveFilter ==
    /\ (req.op = "qbittorrent_torrents" /\ Len(calls) >= 2) =>
          /\ calls[2].params.filter # "active"
          /\ calls[2].params.filter =
                (IF req.filter = "active" THEN "all" ELSE req.filter)
    /\ Succeeded("qbittorrent_torrents") =>
          LET data == answers[2].data IN
          IsSubsequenceAt(resp.body.items, data,
              IF req.filter = "active"
              THEN {i \in 1..Len(data) : KeptAsActive(data[i])}
              ELSE 1..Len(data))

\* An active listing left out a paused torrent with zero speeds and kept a
\* stalled one with zero speeds.
C12_Witness ==
    /\ Succeeded("qbittorrent_torrents")
    /\ req.filter = "active"
    /\ \E i \in 1..Len(answers[2].data) : answers[2].data[i].state = "pausedDL"
    /\ \E i \in 1..Len(answers[2].data) : answers[2].data[i].state = "stalledDL"
    /\ Len(resp.body.items) = 1
    /\ resp.body.items[1].state = "stalledDL"
    /\ resp.body.items[1].dlspeed = 0
    /\ resp.body.items[1].upspeed = 0

\* C13: in every torrent-listing request the login call is issued, and
\* answered with a body containing "Ok", before the listing call of that
\* request; a login answered without "Ok" ends the request with the
\* "login failed" error, the listing call never issued.
C13_LoginFirst ==
    req.op = "qbittorrent_torrents" =>
        /\ Len(calls) >= 1 => calls[1].endpoint = "auth/login"
        /\ \A i \in 1..Len(calls) :
              calls[i].endpoint = "torrents/info" =>
                 /\ i = 2
                 /\ Len(answers) >= 1
                 /\ answers[1].kind = "http"
                 /\ answers[1].text = "Ok."
        /\ (/\ Len(answers) >= 1
            /\ answers[1].kind = "http"
            /\ answers[1].text # "Ok.") =>
              /\ pc = "done"
              /\ Len(calls) = 1
              /\ resp.code = 502
              /\ resp.detail = "qBittorrent login failed"

\* A listing request succeeded: its first call was the login, answered
\* "Ok.", and its second the listing.
C13_Witness ==
    /\ Succeeded("qbittorrent_torrents")
    /\ Len(calls) = 2
    /\ calls[1].endpoint = "auth/login"
    /\ calls[2].endpoint = "torrents/info"
    /\ answers[1].status = 200
    /\ answers[1].text = "Ok."

----------------------------------------------------------------------------
(* Claims about the error outcomes of the adapters, checked under          *)
(* SpecAdapters.  The required calls of a request are its first call and,  *)
(* for the torrent listing, the listing call after the login.              *)

\* The i-th call of the finished request is required and was answered.
RequiredAnswered(i) ==
    /\ pc = "done"
    /\ i \in 1..Len(answers)
    /\ i = 1 \/ req.op = "qbittorrent_torrents"

\* C14: a transport-level failure of an upstream call ends the request
\* with the UpstreamUnreachable outcome, HTTP 502, and no other error.
C14_TransportIsUnreachable ==
    \A i \in 1..Len(answers) :
        (RequiredAnswered(i) /\ answers[i].kind = "transport") =>
            /\ resp.code = 502
            /\ resp.outcome = "UpstreamUnreachable"

\* The error detail names the upstream status.
StatusInDetail(detail, code) ==
    \/ \E service \in {"Sonarr", "Radarr", "qBittorrent"} :
          detail = service \o " error (" \o ToString(code) \o ")"
    \/ detail = "jellyfin status " \o ToString(code)

\* C15: an upstream answer with status >= 400 on a required call ends the
\* request with the UpstreamRejected outcome, HTTP 502, the upstream status
\* kept in the detail.
C15_RejectedKeepsStatus ==
    \A i \in 1..Len(answers) :
        (/\ RequiredAnswered(i)
         /\ answers[i].kind = "http"
         /\ answers[i].status >= 400) =>
            /\ resp.code = 502
            /\ resp.outcome = "UpstreamRejected"
            /\ StatusInDetail(resp.detail, answers[i].status)

\* C16: an upstream answer with a success status whose body is not JSON,
\* on a call whose body the handler parses as JSON, ends the request with
\* the UpstreamMalformed outcome, HTTP 502.
C16_NonJsonIsMalformed ==
    \A i \in 1..Len(answers) :
        (/\ RequiredAnswered(i)
         /\ calls[i].endpoint # "auth/login"
         /\ req.op # "jellyfin_primary_image"
         /\ answers[i].kind = "http"
         /\ answers[i].status < 400
         /\ ~answers[i].json) =>
            /\ resp.code = 502
            /\ resp.outcome = "UpstreamMalformed"

\* C17: the weather operations never fail for lack of configuration or for
\* an upstream timeout: without latitude or longitude they answer
\* "not configured" and issue no upstream call; when the call times out
\* they answer a structured response with the timed-out indicator.
C17_WeatherNeverFails ==
    req.op \in {"weather", "weather_forecast"} =>
        /\ (Absent("weather_lat") \/ Absent("weather_lon")) =>
              /\ calls = <<>>
              /\ pc = "done"
              /\ resp.code = 200
              /\ resp.body = [configured |-> FALSE]
        /\ (pc = "done" /\ answers # <<>> /\ answers[1].kind = "timeout") =>
              /\ resp.code = 200
              /\ resp.body.configured
              /\ resp.body.error = "timeout"

\* A forecast request whose upstream call timed out was answered.
C17_Witness ==
    /\ pc = "done"
    /\ req.op = "weather_forecast"
    /\ Len(calls) = 1
    /\ answers[1].kind = "timeout"
    /\ resp.code = 200
    /\ resp.body.error = "timeout"

----------------------------------------------------------------------------
(* Claim about the scheduling of the status probes, checked under          *)
(* SpecStatus.                                                             *)

\* C18: the status request starts all its probes concurrently: while it
\* awaits, the first call of every configured probe has been issued, no
\* probe waiting for another to finish; it responds only after every probe
\* has completed.
C18_ProbesConcurrent ==
    /\ (req.op = "status" /\ pc = "await") =>
          \A i \in 1..Len(Probes) :
              ProbeConfigured(Probes[i]) =>
                  \E k \in 1..Len(calls) : calls[k] = ProbeFirstCall(Probes[i])
    /\ (req.op = "status" /\ pc = "done" /\ resp.code = 200) =>
          Len(resp.items) = Len(Probes)

----------------------------------------------------------------------------
(* Claims about the reasons and the order of movie soon, checked under     *)
(* SpecAdapters.                                                           *)

\* C19: every returned movie carries exactly one reason: "Queued" if it is
\* in the queue, else "Missing" if its release date is known and not after
\* today, else "Unreleased"; only an "Unreleased" movie is dropped for a
\* date beyond the horizon, so a selected Queued or Missing movie is
\* returned, the limit permitting, whatever its date.
C19_ReasonsAndHorizon ==
    (Succeeded("radarr_soon") /\ QueueReadable) =>
        LET movies == answers[1].data
            items == resp.body.items
            horizon == InRange(req.days, 3650)
        IN
        /\ \A k \in 1..Len(items) :
              /\ items[k].reason =
                    (IF InQueue(items[k].id) THEN "Queued"
                     ELSE IF items[k].releaseDate # None
                             /\ items[k].releaseDate[1] <= 0 THEN "Missing"
                     ELSE "Unreleased")
              /\ items[k].reason = "Unreleased" =>
                    \/ items[k].releaseDate = None
                    \/ items[k].releaseDate[1] <= horizon
        /\ \A i \in 1..Len(movies) :
              LET m == movies[i] IN
              (/\ m.id # None
               /\ m.monitored
               /\ ~m.hasFile \/ InQueue(m.id[1])
               /\ req.limit >= Len(movies)
               /\ \/ InQueue(m.id[1])
                  \/ /\ pick_release_date(m) # None
                     /\ pick_release_date(m)[1] <= 0) =>
                 Returned(m.id[1])

\* A queued movie due after the horizon was returned as "Queued".
C19_Witness ==
    /\ Succeeded("radarr_soon")
    /\ QueueReadable
    /\ \E k \in 1..Len(resp.body.items) :
          /\ resp.body.items[k].reason = "Queued"
          /\ resp.body.items[k].releaseDate # None
          /\ resp.body.items[k].releaseDate[1] > InRange(req.days, 3650)

\* The movie-soon order: a known release date (days from today) before an
\* unknown one, then the earlier date, then the smaller title.
SoonOrdered(date_a, title_a, date_b, title_b) ==
    IF date_a = None THEN date_b = None /\ title_a <= title_b
    ELSE \/ date_b = None
         \/ date_a[1] < date_b[1]
         \/ date_a[1] = date_b[1] /\ title_a <= title_b

\* C20: the items of movie soon are ordered known dates first, ascending by
\* release date, ties by ascending title; the limit is applied after the
\* sort: the items are the first `limit` of the whole sorted selection.
C20_SortedThenLimited ==
    (Succeeded("radarr_soon") /\ QueueReadable) =>
        LET movies == answers[1].data
            items == resp.body.items
            selected ==
                {i \in 1..Len(movies) :
                    /\ movies[i].id # None
                    /\ movies[i].monitored
                    /\ ~movies[i].hasFile \/ InQueue(movies[i].id[1])
                    /\ \/ InQueue(movies[i].id[1])
                       \/ pick_release_date(movies[i]) = None
                       \/ pick_release_date(movies[i])[1] <= InRange(req.days, 3650)}
        IN
        /\ Len(items) = Min(Cardinality(selected), LimitInRange(req.limit))
        /\ \A j, k \in 1..Len(items) :
              j < k => SoonOrdered(items[j].releaseDate, items[j].title,
                                   items[k].releaseDate, items[k].title)
        /\ \A i \in selected :
              \/ \E k \in 1..Len(items) :
                    /\ items[k].id = movies[i].id[1]
                    /\ items[k].title = movies[i].title
              \/ \A k \in 1..Len(items) :
                    SoonOrdered(items[k].releaseDate, items[k].title,
                                pick_release_date(movies[i]), movies[i].title)

\* Upstream listed two movies due the same day with the greater title
\* first; the limit of one kept the one with the smaller title.
C20_Witness ==
    /\ Succeeded("radarr_soon")
    /\ QueueReadable
    /\ req.limit = 1
    /\ Len(answers[1].data) = 2
    /\ answers[1].data[1].id = Some(3)
    /\ answers[1].data[2].id = Some(6)
    /\ Len(resp.body.items) = 1
    /\ resp.body.items[1].id = 6

----------------------------------------------------------------------------
(* Claim about the importing list, checked under SpecAdapters.             *)

\* Text a sorts before text b, or they are equal.
TextLeq(a, b) == ~LexLess(b, a)

\* The record's status or state text names an import, a processing or a
\* move, whatever the case of its letters.
NamesImport(rec) ==
    \E text \in {Lower(rec.status), Lower(rec.trackedDownloadState)} :
        text \in {"importpending", "processing", "moving"}

\* C21: importing returns exactly the queue records whose status and state
\* text contains "import", "process" or "move" case-insensitively, sorted
\* ascending by the pair (time-remaining, title): first by time-remaining
\* and only among equal time-remaining values by title.
C21_ImportingSortedByPair ==
    (Succeeded("sonarr_importing") /\ answers[1].shape = "dict") =>
        LET records == answers[1].data
            items == resp.body.items
            text(o) == IF o = None THEN <<>> ELSE o[1]
            selected == {i \in 1..Len(records) :
                            records[i].isDict /\ NamesImport(records[i])}
        IN
        /\ Len(items) = Min(Cardinality(selected), LimitInRange(req.limit))
        /\ \A k \in 1..Len(items) :
              \E i \in selected :
                 /\ records[i].timeleft = items[k].timeleft
                 /\ records[i].seriesTitle = items[k].seriesTitle
        /\ \A j, k \in 1..Len(items) :
              j < k =>
                 \/ LexLess(text(items[j].timeleft), text(items[k].timeleft))
                 \/ /\ items[j].timeleft = items[k].timeleft
                    /\ TextLeq(text(items[j].seriesTitle),
                               text(items[k].seriesTitle))

----------------------------------------------------------------------------
(* Claims about the upstream calls of one request, checked under           *)
(* SpecAdapters.                                                           *)

\* C22: there is no retry: within one request each distinct upstream call
\* (endpoint and parameters) is issued at most once, whether it succeeds
\* or fails, and once a required call has failed (transport error or
\* status >= 400) the request is over and no further call is issued.
C22_NoRetry ==
    /\ \A i, j \in 1..Len(calls) : i < j => calls[i] # calls[j]
    /\ \A i \in 1..Len(answers) :
          (/\ i = 1 \/ req.op = "qbittorrent_torrents"
           /\ answers[i].kind # "http" \/ answers[i].status >= 400) =>
              /\ pc = "done"
              /\ Len(calls) = i

\* A latest request asked for two series, the first follow-up failed, and
\* the request ended with three calls in all.
C22_Witness ==
    /\ pc = "done"
    /\ req.op = "jellyfin_latest"
    /\ Len(calls) = 3
    /\ Len(answers) = 3
    /\ answers[2].kind = "transport"
    /\ resp.code = 200

\* C23: in a list operation one malformed upstream record, such as a
\* record that is no JSON object, never aborts the whole list: when the
\* list call is answered with a JSON array, the request succeeds.
C23_MalformedRecordTolerated ==
    (/\ pc = "done"
     /\ req.op \in {"sonarr_upcoming", "radarr_upcoming", "radarr_soon",
                    "qbittorrent_torrents", "jellyfin_latest"}
     /\ \E i \in 1..Len(answers) :
           /\ calls[i].endpoint # "auth/login"
           /\ i = 1 \/ req.op = "qbittorrent_torrents"
           /\ answers[i].kind = "http"
           /\ answers[i].status < 400
           /\ answers[i].json
           /\ answers[i].shape = "list") =>
        resp.code = 200

----------------------------------------------------------------------------
(* Claims about the series follow-ups of media-server latest, checked      *)
(* under SpecAdapters.                                                     *)

\* A finished latest request whose first call returned a list of records.
LatestListed ==
    /\ pc = "done"
    /\ req.op = "jellyfin_latest"
    /\ Len(answers) >= 1
    /\ answers[1].kind = "http" /\ answers[1].status < 400
    /\ answers[1].json /\ answers[1].shape = "list"
    /\ \A i \in 1..Len(answers[1].data) : answers[1].data[i].isDict

\* The follow-ups of a finished latest request: issued only with a user
\* scope, one per distinct series of the episode items; the request
\* succeeds whatever they return; a series has a progress entry iff its
\* follow-up returned integer counts with total >= min_total and
\* unplayed >= 0, the entry holding watched(total, unplayed) and total.
SeriesFollowUps(min_total, watched(_, _)) ==
    LatestListed =>
        LET items == answers[1].data
            series == {items[i].SeriesId[1] :
                         i \in {j \in 1..Len(items) :
                                  /\ items[j].Type = "Episode"
                                  /\ items[j].SeriesId # None}}
            asked == {calls[k].params[1] : k \in 2..Len(calls)}
        IN
        /\ resp.code = 200
        /\ Len(calls) = Len(answers)
        /\ asked = (IF Absent("jellyfin_user_id") THEN {} ELSE series)
        /\ Len(calls) = 1 + Cardinality(asked)
        /\ \A k \in 2..Len(calls) :
              \A n \in 1..Len(resp.body.items) :
                 LET it == resp.body.items[n]
                     ans == answers[k]
                     counted ==
                        /\ ans.kind = "http" /\ ans.status < 400
                        /\ ans.json /\ ans.shape = "dict"
                        /\ ans.data[1] # None /\ ans.data[1][1] >= min_total
                        /\ ans.data[2] # None /\ ans.data[2][1] >= 0
                 IN it.seriesId = Some(calls[k].params[1]) =>
                       /\ it.seriesProgress # None <=> counted
                       /\ counted =>
                             it.seriesProgress[1] =
                                [watched |-> watched(ans.data[1][1], ans.data[2][1]),
                                 total |-> ans.data[1][1]]
        /\ \A n \in 1..Len(resp.body.items) :
              resp.body.items[n].seriesProgress # None =>
                 /\ resp.body.items[n].seriesId # None
                 /\ resp.body.items[n].seriesId[1] \in asked

\* total - unplayed.
Difference(total, unplayed) == total - unplayed

\* max(0, total - unplayed).
ClampedDifference(total, unplayed) ==
    IF total < unplayed THEN 0 ELSE total - unplayed

\* C24 as stated: progress is emitted iff total and unplayed are both
\* non-negative integers, with watched = total - unplayed.
C24_Original == SeriesFollowUps(0, Difference)

\* C24, amended: follow-ups are issued only with a user scope, one per
\* distinct series of the episode items; progress is emitted for a series
\* iff its follow-up returns an integer total > 0 and an integer
\* unplayed >= 0, with watched = max(0, total - unplayed); a failed
\* follow-up leaves that series without progress and the request succeeds.
C24_SeriesProgress == SeriesFollowUps(1, ClampedDifference)

\* A follow-up returned more unplayed episodes than the total and the
\* series got a progress entry with watched = 0.
C24_Witness ==
    /\ LatestListed
    /\ Len(calls) >= 2
    /\ answers[2].shape = "dict"
    /\ answers[2].data = <<Some(3), Some(5)>>
    /\ \E n \in 1..Len(resp.body.items) :
          /\ resp.body.items[n].seriesId = Some(calls[2].params[1])
          /\ resp.body.items[n].seriesProgress = Some([watched |-> 0, total |-> 3])

----------------------------------------------------------------------------
(* Claim about the torrent listing limit, checked under SpecAdapters.      *)

\* The torrents qBittorrent holds that pass the requested filter, newest
\* first: "active" is judged by the handler's test, the other filters by
\* qBittorrent.
PassingTorrents ==
    IF req.filter = "active" THEN ActiveOnly(qb_torrents)
    ELSE UpstreamFilter(req.filter, qb_torrents)

\* The fields of the response items the model keeps.
Listed(torrents) ==
    [i \in 1..Len(torrents) |->
        [name |-> torrents[i].name, state |-> torrents[i].state,
         dlspeed |-> torrents[i].dlspeed, upspeed |-> torrents[i].upspeed]]

\* A listing request was answered with a list, qBittorrent holding records.
TorrentsListed ==
    /\ pc = "done"
    /\ req.op = "qbittorrent_torrents"
    /\ resp.outcome = "ok"
    /\ AllDicts(qb_torrents)

\* C26: with limit absent or <= 0 no limit is sent upstream and the response
\* holds every torrent that passes the filter; with limit n > 0 it holds the
\* first n torrents that pass the filter, for every filter value, the
\* client-side "active" filter included.
C26_LimitSemantics ==
    TorrentsListed =>
        IF HasLimit(req.limit)
        THEN resp.body.items = Listed(Take(PassingTorrents, req.limit[1]))
        ELSE /\ calls[2].params.limit = None
             /\ resp.body.items = Listed(PassingTorrents)

----------------------------------------------------------------------------
(* Claim about the two calls of movie soon, checked under SpecAdapters.    *)

\* The queue call failed: transport error, HTTP >= 400, or a body that is
\* no JSON.
QueueFailed ==
    \/ answers[2].kind = "transport"
    \/ answers[2].status >= 400
    \/ ~answers[2].json

\* A queue answer that holds no record.
EmptyQueue == HttpReply(200, TRUE, "dict", "{records}", <<>>)

\* C27: in movie soon the movie-list call is issued and succeeds before the
\* queue call is issued; a rejected movie-list call fails the request and
\* the queue call is never issued; a failed queue call (transport error,
\* HTTP >= 400, malformed body) does not fail the request: the response is
\* the one of an empty queue and no item is classified "Queued".
C27_MoviesBeforeQueue ==
    req.op = "radarr_soon" =>
        /\ Len(calls) >= 1 => calls[1] = Get("Radarr", "movie", <<>>)
        /\ Len(calls) >= 2 =>
              /\ calls[2] = Get("Radarr", "queue", <<>>)
              /\ Len(answers) >= 1
              /\ answers[1].kind = "http"
              /\ answers[1].status < 400
              /\ answers[1].json
        /\ (Len(answers) >= 1 /\ answers[1].kind = "http"
            /\ answers[1].status >= 400) =>
              /\ pc = "done"
              /\ resp.code = 502
              /\ Len(calls) = 1
        /\ (pc = "done" /\ Len(answers) = 2 /\ QueueFailed) =>
              /\ resp = RadarrSoonResult(req.days, req.limit, answers[1],
                                         EmptyQueue)
              /\ AllDicts(answers[1].data) =>
                    /\ resp.outcome = "ok"
                    /\ \A k \in 1..Len(resp.body.items) :
                          resp.body.items[k].reason # "Queued"

\* The queue call failed after the movie list arrived, and the response
\* lists a movie.
C27_Witness ==
    /\ pc = "done"
    /\ req.op = "radarr_soon"
    /\ Len(answers) = 2
    /\ answers[2].kind = "transport"
    /\ resp.outcome = "ok"
    /\ Len(resp.body.items) >= 1

----------------------------------------------------------------------------
(* Claim about concurrent /api/system requests, checked under SpecPolls.   *)

\* Every rate a poll reports is null or a non-negative number.
RatesNonNegative ==
    \A p \in Polls :
        sys[p].resp # None =>
            \A r \in {sys[p].resp[1].network.rxBps, sys[p].resp[1].network.txBps,
                      sys[p].resp[1].diskIo.readBps,
                      sys[p].resp[1].diskIo.writeBps} :
                r = None \/ r[1].n >= 0

\* A step that changes a slot is the step of one poll that stores the two
\* counters it read and the time it read them at.
SlotWrittenWhole ==
    /\ _NET_LAST' # _NET_LAST =>
          \E p \in Polls :
             /\ sys[p].pc # "done" /\ sys'[p].pc = "done"
             /\ sys'[p].net # None
             /\ _NET_LAST' = Some([a |-> sys'[p].net[1].a,
                                   b |-> sys'[p].net[1].b, t |-> sys'[p].now])
    /\ _DISK_LAST' # _DISK_LAST =>
          \E p \in Polls :
             /\ sys[p].pc # "done" /\ sys'[p].pc = "done"
             /\ sys'[p].disk # None
             /\ _DISK_LAST' = Some([a |-> sys'[p].disk[1].a,
                                    b |-> sys'[p].disk[1].b, t |-> sys'[p].now])

\* C28: under any interleaving of concurrent /api/system requests each slot
\* (network, disk I/O) holds counters and a timestamp written together by
\* one single poll, never a mix of two polls' values, and every reported
\* rate is a non-negative number or null; the worst effect is a rate
\* computed against a stale baseline.
C28_SlotsWholeRatesNonNegative ==
    [][SlotWrittenWhole]_vars /\ []RatesNonNegative

\* The request that arrived first since process start fell back to the
\* local counters and computed its rates against a sample that a request
\* arrived after it had stored in the meantime.
C28_Witness ==
    \E p \in Polls :
        /\ sys[p].pc = "done"
        /\ sys[p].first
        /\ sys[p].net # None
        /\ sys[p].last_net # None
        /\ sys[p].resp[1].network.source = Some("container")
        /\ sys[p].resp[1].network.rxBps # None

----------------------------------------------------------------------------
(* Claim about the count field, checked under SpecAdapters.                *)

\* The operations that answer with a list and a count.
ListOps ==
    {"sonarr_upcoming", "radarr_upcoming", "radarr_soon", "sonarr_importing",
     "qbittorrent_torrents", "jellyfin_latest"}

\* C29: in every list response the count field is a non-negative integer
\* equal to the number of items returned in that response.
C29_CountIsLength ==
    (pc = "done" /\ req.op \in ListOps /\ resp.outcome = "ok") =>
        /\ resp.body.count >= 0
        /\ resp.body.count = Len(resp.body.items)

----------------------------------------------------------------------------
(* Claim about what a poll leaves in the slots, checked under SpecSystem.  *)

\* The step in which poll p runs main.py:689-734 and returns.
PollEnds(p) == sys[p].pc # "done" /\ sys'[p].pc = "done"

\* The slots a poll leaves alone: the network slot when its network source
\* is "qbittorrent" or the local network counters are unreadable, the disk
\* slot when the disk counters are unreadable.
SlotsLeftAlone(p) ==
    /\ sys'[p].resp[1].network.source = Some("qbittorrent") =>
          _NET_LAST' = _NET_LAST
    /\ sys'[p].resp[1].network.source = None => _NET_LAST' = _NET_LAST
    /\ sys'[p].resp[1].diskIo.source = None => _DISK_LAST' = _DISK_LAST

\* A poll that falls back to the local counters computes its rates against
\* the sample in the slot, whichever poll stored it.
AgainstSlot(p) ==
    (sys'[p].resp[1].network.source = Some("container") /\ _NET_LAST # None) =>
        /\ sys'[p].resp[1].network.rxBps =
              Some(Rate(sys'[p].net[1].a, _NET_LAST[1].a, clock, _NET_LAST[1].t))
        /\ sys'[p].resp[1].network.txBps =
              Some(Rate(sys'[p].net[1].b, _NET_LAST[1].b, clock, _NET_LAST[1].t))

\* The fallback poll found the slot empty.
FirstFallback(p) ==
    sys'[p].resp[1].network.source = Some("container") /\ _NET_LAST = None

----------------------------------------------------------------------------
(* Claim about termination, checked under SpecLive.                        *)

\* C25: every request eventually produces a response: a request that
\* awaits an upstream call, the multi-call operations included, is
\* eventually answered, provided each upstream call is eventually
\* answered or timed out.
C25_EventuallyResponds == (pc = "await") ~> (pc = "done")

\* A status request ended after three upstream calls or more.
C25_Witness ==
    /\ pc = "done"
    /\ req.op = "status"
    /\ Len(calls) >= 3
    /\ Len(answers) = Len(calls)

====
